---- MODULE Spec2Model ----
(***************************************************************************)
(* A model of bricksKV: the KV facade (src/src/kv.rs) with its write-ahead *)
(* log (kv/wal.rs), meta file (kv/meta.rs), sharded hash index             *)
(* (kv/index/bucket.rs, kv/index/buckets.rs) and level-page value store    *)
(* (kv/data/level_page_bitmap.rs, page_bitmap.rs).                         *)
(*                                                                         *)
(* Byte strings are sequences of 0..255.  Files are byte sequences (WAL),  *)
(* sparse slot arrays (bucket files) and sparse page arrays (data files).  *)
(* Rust slices b[from..to] are written Slice(b, from, to) with 0-based     *)
(* offsets, as in the source.                                              *)
(***************************************************************************)
EXTENDS Integers, Sequences, FiniteSets, TLC

VARIABLES
    \* ---- options of the instance (KVOptions, fixed at KV::new) ----
    key_size,           \* KV.key_size
    \* ---- files of the directory (survive a process kill) ----
    wal_files,          \* wal/<id>.wal : id -> bytes
    meta_file,          \* kv.meta : [current_wal_id, key_size]
    buckets,            \* buckets-index : shard -> [entry_num, slots]
    lp_bits,            \* index_<ps>b_<i>.idx : level -> set of allocated pages
    lp_data,            \* data_<ps>b_<i>.dat  : data_id -> page bytes
    \* ---- memory of the running instance ----
    current_wal,        \* KV.current_wal : [id, end_offset]
    current_wal_id,     \* KV.current_wal_id
    current_buffer,     \* KV.current_buffer : key -> KVOp
    flushing_buffers,   \* KV.flushing_buffers : Seq([buffer, wal_id])
    flush_lock,         \* KV.flush_lock : "free" | "held"
    fl_spawned,         \* flusher threads spawned and waiting for flush_lock
    fl_pc,              \* position of the flusher thread holding flush_lock
    fl_todo,            \* keys of the head buffer the for loop has not visited
    fl_key,             \* key of the op being applied
    fl_data_id,         \* data_id in hand (written page / page to free)
    fl_err,             \* last error the flusher's retry loops logged
    \* ---- what the callers observed (history) ----
    last_call,          \* last public call and its result
    acked,              \* key -> last op acknowledged with Ok ("None" if none)
    prev_acked,         \* key -> the acknowledged op before that
    nops,               \* number of do_batch calls made
    crashes,            \* number of kill + re-open
    \* ---- WAL file exercised alone (SpecWal) ----
    wt_file,            \* bytes of the WAL file
    wt_end,             \* WAL.end_offset of the writing handle
    wt_written,         \* payloads passed to write_record, in order
    wt_cut,             \* TRUE once the file was cut short by a kill
    wt_replayed,        \* [done, payloads]: what the last replay passed to its callback
    \* ---- value store exercised alone (SpecStore) ----
    st_levels,          \* LevelPage.levels : level -> PageBitmap (layers and files)
    st_live,            \* data_id -> value, for the ids written and not freed
    st_last,            \* [op, data_id, res] of the last call on the store
    st_ops,             \* number of write / free calls made
    st_reopens,         \* number of times the store was re-opened from its files
    \* ---- hash bucket exercised alone (SpecBucket) ----
    bk,                 \* the Bucket : [entry_num, slots]
    bk_before,          \* the Bucket as it was before the last call
    bk_last,            \* name of the last call on the bucket
    bk_ops,             \* number of put / del / expand calls made
    bk_tmp,             \* the temporary file of the bucket's directory: <<>> or <<file>>
    \* ---- the locks of the instance exercised alone (SpecLocks) ----
    lk_pc,              \* thread -> position in its call
    lk_locks,           \* lock -> [writer, readers]: the threads holding it
    lk_held,            \* thread -> the locks it holds, in acquisition order
    lk_queue,           \* length of KV.flushing_buffers
    lk_policy,          \* what RwLock::read does while a writer waits
    lk_failing,         \* TRUE when the flusher's index step keeps failing
    \* ---- sharded index exercised alone (SpecIndex) ----
    ix,                 \* the Buckets : shard -> [entry_num, slots]
    ix_last,            \* [op, key, value, res] of the last call on the index
    ix_ops,             \* number of put / del calls made
    \* ---- one PageBitmap called by concurrent threads (SpecAlloc) ----
    al_pb,              \* the PageBitmap (layers and files)
    al_th,              \* thread -> [pc, page, buf]: position, page, index byte read
    al_locks,           \* [meta_lock, levels]: the thread holding each, or "none"
    al_held,            \* thread -> pages it was returned and has not freed
    al_dup,             \* TRUE once an allocation returned a page still held
    al_ops              \* number of allocate_page / free_page calls started

kvVars == <<key_size, wal_files, meta_file, buckets, lp_bits, lp_data,
            current_wal, current_wal_id, current_buffer, flushing_buffers,
            flush_lock, fl_spawned, fl_pc, fl_todo, fl_key, fl_data_id, fl_err,
            last_call, acked, prev_acked, nops, crashes>>

wtVars == <<wt_file, wt_end, wt_written, wt_cut, wt_replayed>>

stVars == <<st_levels, st_live, st_last, st_ops, st_reopens>>

bkVars == <<bk, bk_before, bk_last, bk_ops, bk_tmp>>

lkVars == <<lk_pc, lk_locks, lk_held, lk_queue, lk_policy, lk_failing>>

ixVars == <<ix, ix_last, ix_ops>>

alVars == <<al_pb, al_th, al_locks, al_held, al_dup, al_ops>>

\* the variables of the components exercised alone
unitVars == <<wtVars, stVars, bkVars, lkVars, ixVars, alVars>>

vars == <<kvVars, unitVars>>

----------------------------------------------------------------------------
(* Bounds of the model *)

\* number of put / delete / do_batch calls in a run
MaxOps == 3
\* number of times the process is killed and the directory re-opened
MaxCrashes == 1
\* number of write_record calls on the WAL file exercised alone
MaxRecords == 3
\* number of write / free calls on the value store exercised alone
MaxStoreOps == 4
\* number of put / del / expand calls on the bucket exercised alone
MaxBucketOps == 5
\* number of sealed buffers the queue holds when the locks are exercised alone
MaxSealed == 2
\* number of put / del calls on the sharded index exercised alone
MaxIndexOps == 6

----------------------------------------------------------------------------
(* Program constants *)

\* BucketsOptions::default().key_size, the key width KV::new gives the index
DefaultKeySize == 32
\* DEFAULT_BUCKET_COUNT
DefaultBucketCount == 32
\* BucketsOptions::default().init_entry_num_for_each_bucket
DefaultInitEntryNum == 1024
\* MAX_SEARCH_DEFAULT
MaxSearch == 32
\* LevelPageOptions::default(): Pow2 { start_page_size: 32, level_count: 8 }
StartPageSize == 32
LevelCount == 8
\* data_id = (level_idx << 56) | page_idx in the source.  The model checker's
\* integers are 32 bits wide, so the model keeps the layout with the level
\* index shifted by 24 bits (2^24) instead of 56.
LevelShift == 16777216

\* WALOptions.flush_size of the modelled instance.  The default is 4 MiB; the
\* model opens the store with a threshold of one record (16 + key_size bytes
\* for a 32-byte key and an empty value), so that a WAL file rotates at its
\* first or second record and rotation happens within MaxOps calls.
wal_flush_size == 48

----------------------------------------------------------------------------
(* Bytes *)

Min(S) == CHOOSE x \in S : \A y \in S : x <= y

\* b[from..to] of Rust
Slice(b, from, to) == SubSeq(b, from + 1, to)

\* u32::to_le_bytes
U32LE(n) == << n % 256, (n \div 256) % 256, (n \div 65536) % 256,
               (n \div 16777216) % 256 >>

\* u32::from_le_bytes(b[off..off+4])
FromU32LE(b, off) ==
    b[off + 1] + 256 * b[off + 2] + 65536 * b[off + 3] + 16777216 * b[off + 4]

\* vec![x; n]
Repeat(x, n) == [i \in 1..n |-> x]

----------------------------------------------------------------------------
(* kv/wal.rs *)

\* The zstd frame is modelled by its 4-byte magic number followed by the
\* content: a frame is never the content itself and is longer than it.
ZstdMagic == <<40, 181, 47, 253>>

compress_data(data) == ZstdMagic \o data

de_compress_data(data) == Slice(data, 4, Len(data))

\* the bytes write_record appends for one payload
RecordBytes(payload) ==
    LET c == compress_data(payload) IN U32LE(Len(c)) \o c

\* a replay that takes a record ending exactly at the end of the file for a
\* truncated one
RECURSIVE ReplayFromStrict(_, _)
ReplayFromStrict(buf, offset) ==
    IF offset + 4 <= Len(buf)
    THEN LET length == FromU32LE(buf, offset)
             off2   == offset + 4
         IN  IF off2 + length >= Len(buf)
             THEN <<>>
             ELSE <<de_compress_data(Slice(buf, off2, off2 + length))>>
                      \o ReplayFromStrict(buf, off2 + length)
    ELSE <<>>

\* WAL::replay: the payloads handed to the callback, in order, reading buf
\* from offset
RECURSIVE ReplayFrom(_, _)
ReplayFrom(buf, offset) ==
    IF offset + 4 <= Len(buf)
    THEN LET length == FromU32LE(buf, offset)
             off2   == offset + 4
         IN  IF off2 + length > Len(buf)
             THEN <<>>
             ELSE <<de_compress_data(Slice(buf, off2, off2 + length))>>
                      \o ReplayFrom(buf, off2 + length)
    ELSE <<>>

replay(buf) == IF Len(buf) = 0 THEN <<>> ELSE ReplayFrom(buf, 0)

----------------------------------------------------------------------------
(* KVOp, Batch and the payload of a batch (kv.rs) *)

Put(v) == [type |-> "Put", value |-> v]
Del == [type |-> "Del", value |-> <<>>]

\* an op of a batch
Op(k, o) == [key |-> k, op |-> o]

\* do_batch: the bytes of one entry
EntryBytes(e, ks) ==
    IF e.op.type = "Put"
    THEN U32LE(Len(e.key) + Len(e.op.value)) \o e.key \o e.op.value
    ELSE U32LE(ks) \o e.key

RECURSIVE EntriesBytes(_, _)
EntriesBytes(ops, ks) ==
    IF ops = <<>> THEN <<>>
    ELSE EntryBytes(Head(ops), ks) \o EntriesBytes(Tail(ops), ks)

RECURSIVE TotalSize(_)
TotalSize(ops) ==
    IF ops = <<>> THEN 0
    ELSE Len(Head(ops).key) + Len(Head(ops).op.value) + 4 + TotalSize(Tail(ops))

\* do_batch: payload = [total_size 4 bytes] + entries
BatchPayload(ops, ks) == U32LE(TotalSize(ops)) \o EntriesBytes(ops, ks)

\* a validation that looks at the first key of the batch only
ValidBatchFirstKey(ops, ks) == Len(ops[1].key) = ks

\* do_batch: every key has the instance's key_size
ValidBatch(ops, ks) == \A i \in 1..Len(ops) : Len(ops[i].key) = ks

\* load: the replay callback, which reads entries from offset 0 of the
\* payload it is handed
RECURSIVE DecodeFrom(_, _, _)
DecodeFrom(batch_payload, batch_offset, ks) ==
    IF batch_offset < Len(batch_payload)
    THEN LET entry_len == FromU32LE(batch_payload, batch_offset)
             off2      == batch_offset + 4
             entry     == Slice(batch_payload, off2, off2 + entry_len)
             key       == Slice(entry, 0, ks)
             e == IF entry_len > ks
                  THEN Op(key, Put(Slice(entry, ks, Len(entry))))
                  ELSE Op(key, Del)
         IN  <<e>> \o DecodeFrom(batch_payload, off2 + entry_len, ks)
    ELSE <<>>

DecodePayload(batch_payload, ks) == DecodeFrom(batch_payload, 0, ks)

\* HashMap::insert / extend: later ops of a key replace earlier ones
RECURSIVE Fold(_, _)
Fold(buffer, ops) ==
    IF ops = <<>> THEN buffer
    ELSE LET e == Head(ops)
             b == [k \in DOMAIN buffer \cup {e.key} |->
                      IF k = e.key THEN e.op ELSE buffer[k]]
         IN  Fold(b, Tail(ops))

EmptyBuffer == [k \in {} |-> Del]

\* load: all records of one WAL file folded into a buffer
RECURSIVE FoldRecords(_, _, _)
FoldRecords(buffer, payloads, ks) ==
    IF payloads = <<>> THEN buffer
    ELSE FoldRecords(Fold(buffer, DecodePayload(Head(payloads), ks)),
                     Tail(payloads), ks)

----------------------------------------------------------------------------
(* kv/index/bucket.rs: one hash bucket, a file of entry_num slots *)

\* DataInfo, the value kept in a slot
DataInfo(id, len) == [data_id |-> id, data_len |-> len]

\* a slot of a zero-filled file: meta Free, zero key, zero value
ZeroSlot == [meta |-> "Free", key |-> Repeat(0, DefaultKeySize),
             value |-> DataInfo(0, 0)]

NoSlots == [i \in {} |-> ZeroSlot]

\* Bucket::new on an empty file
NewBucket(init_entry_num) == [entry_num |-> init_entry_num, slots |-> NoSlots]

\* the slot read at index i (slots never written are zero bytes)
SlotAt(bucket, i) ==
    IF i \in DOMAIN bucket.slots THEN bucket.slots[i] ELSE ZeroSlot

WriteSlot(bucket, i, slot) ==
    [bucket EXCEPT !.slots = [j \in DOMAIN bucket.slots \cup {i} |->
                                 IF j = i THEN slot ELSE bucket.slots[j]]]

\* DefaultHasher over the key bytes.  The model keeps what the code relies
\* on (a deterministic function of the bytes) and makes keys whose first
\* bytes are 2n and 2n+1 collide.
KeyHash(key) == IF Len(key) = 0 THEN 0 ELSE key[1] \div 2

\* the probe sequence of put / get / del: index of probe i
ProbeIndex(bucket, key, i) == ((KeyHash(key) % bucket.entry_num) + i) % bucket.entry_num

\* Bucket::put: the first probe whose slot is free or holds the key
PutProbes(bucket, key) ==
    { i \in 0..(MaxSearch - 1) :
        LET e == SlotAt(bucket, ProbeIndex(bucket, key, i))
        IN  e.meta = "Free" \/ e.key = key }

BucketPut(bucket, key, value) ==
    IF Len(key) # DefaultKeySize
    THEN [res |-> "InvalidKeyLength", bucket |-> bucket]
    ELSE IF PutProbes(bucket, key) = {}
    THEN [res |-> "MaxSearchReached", bucket |-> bucket]
    ELSE [res |-> "Ok",
          bucket |-> WriteSlot(bucket, ProbeIndex(bucket, key, Min(PutProbes(bucket, key))),
                               [meta |-> "Occupied", key |-> key, value |-> value])]

\* Bucket::get / Bucket::del: the first probe whose slot is occupied by the key
HitProbes(bucket, key) ==
    { i \in 0..(MaxSearch - 1) :
        LET e == SlotAt(bucket, ProbeIndex(bucket, key, i))
        IN  e.meta = "Occupied" /\ e.key = key }

BucketGet(bucket, key) ==
    IF Len(key) # DefaultKeySize
    THEN [res |-> "InvalidKeyLength", value |-> DataInfo(0, 0)]
    ELSE IF HitProbes(bucket, key) = {}
    THEN [res |-> "None", value |-> DataInfo(0, 0)]
    ELSE [res |-> "Some",
          value |-> SlotAt(bucket, ProbeIndex(bucket, key, Min(HitProbes(bucket, key)))).value]

BucketDel(bucket, key) ==
    IF Len(key) # DefaultKeySize
    THEN [res |-> "InvalidKeyLength", value |-> DataInfo(0, 0), bucket |-> bucket]
    ELSE IF HitProbes(bucket, key) = {}
    THEN [res |-> "None", value |-> DataInfo(0, 0), bucket |-> bucket]
    ELSE LET idx == ProbeIndex(bucket, key, Min(HitProbes(bucket, key)))
             e   == SlotAt(bucket, idx)
         IN  [res |-> "Some", value |-> e.value,
              bucket |-> WriteSlot(bucket, idx, [e EXCEPT !.meta = "Free"])]

\* do_expand: the slot of the new file an occupied entry goes to (the first
\* free one of its probe window), or -1 when the window is full
NewFileProbes(newb, key) ==
    { i \in 0..(MaxSearch - 1) : SlotAt(newb, ProbeIndex(newb, key, i)).meta = "Free" }

\* do_expand: migrate the occupied entries at indices >= i of the old file,
\* in index order, into newb; "MaxSearchReached" when one does not fit
RECURSIVE Migrate(_, _, _)
Migrate(bucket, newb, i) ==
    LET rest == { j \in DOMAIN bucket.slots : j >= i /\ bucket.slots[j].meta = "Occupied" }
    IN  IF rest = {} THEN [res |-> "Ok", bucket |-> newb]
        ELSE LET j == Min(rest)
                 e == bucket.slots[j]
             IN  IF NewFileProbes(newb, e.key) = {}
                 THEN [res |-> "MaxSearchReached", bucket |-> bucket]
                 ELSE Migrate(bucket,
                              WriteSlot(newb,
                                        ProbeIndex(newb, e.key, Min(NewFileProbes(newb, e.key))),
                                        e),
                              j + 1)

do_expand(bucket, new_entry_num) == Migrate(bucket, NewBucket(new_entry_num), 0)

\* Bucket::expand: double until the rehash fits
RECURSIVE ExpandFrom(_, _)
ExpandFrom(bucket, new_entry_num) ==
    LET r == do_expand(bucket, new_entry_num * 2)
    IN  IF r.res = "Ok" THEN r.bucket ELSE ExpandFrom(bucket, new_entry_num * 2)

expand(bucket) == ExpandFrom(bucket, bucket.entry_num)

----------------------------------------------------------------------------
(* kv/index/buckets.rs: the sharded index, as KV::new builds it *)

NewBuckets == [s \in 0..(DefaultBucketCount - 1) |-> NewBucket(DefaultInitEntryNum)]

hash_key(key) == KeyHash(key) % DefaultBucketCount

\* a put that hands the shard's MaxSearchReached to the caller
BucketsPutOnce(bs, key, value) ==
    LET idx == hash_key(key)
        r   == BucketPut(bs[idx], key, value)
    IN  [res |-> r.res, buckets |-> [bs EXCEPT ![idx] = r.bucket]]

\* Buckets::put: expand the shard and retry while the probe window is full
RECURSIVE BucketsPut(_, _, _)
BucketsPut(bs, key, value) ==
    LET idx == hash_key(key)
        r   == BucketPut(bs[idx], key, value)
    IN  IF r.res = "MaxSearchReached"
        THEN BucketsPut([bs EXCEPT ![idx] = expand(bs[idx])], key, value)
        ELSE [res |-> r.res, buckets |-> [bs EXCEPT ![idx] = r.bucket]]

BucketsGet(bs, key) == BucketGet(bs[hash_key(key)], key)

BucketsDel(bs, key) ==
    LET idx == hash_key(key)
        r   == BucketDel(bs[idx], key)
    IN  [res |-> r.res, value |-> r.value, buckets |-> [bs EXCEPT ![idx] = r.bucket]]

----------------------------------------------------------------------------
(* kv/data/level_page_bitmap.rs and page_bitmap.rs: the value store *)

\* LevelPage::new: the page sizes of Pow2 { start_page_size, level_count }
RECURSIVE Pow2(_)
Pow2(n) == IF n = 0 THEN 1 ELSE 2 * Pow2(n - 1)

levels_page_size == [i \in 1..LevelCount |-> StartPageSize * Pow2(i - 1)]

\* page size of level index lvl (0-based, as in the source)
PageSize(lvl) == levels_page_size[lvl + 1]

\* a routing that wants a page strictly larger than the value
TargetLevelStrict(size) == Min({ i \in 0..(LevelCount - 1) : PageSize(i) > size })

\* LevelPage::write: the first level whose page size is >= size
TargetLevel(size) == Min({ i \in 0..(LevelCount - 1) : PageSize(i) >= size })

\* data_id = (level_idx << 56) | page_idx
EncodeDataId(level_idx, page_idx) == level_idx * LevelShift + (page_idx % LevelShift)

LevelOf(data_id) == data_id \div LevelShift

PageOf(data_id) == data_id % LevelShift

\* PageBitmap::new: no page allocated
NewLevels == [l \in 0..(LevelCount - 1) |-> {}]

\* an allocator that counts the allocated pages and returns the count,
\* whatever pages were freed
allocate_by_count(bits) == Cardinality(bits)

\* PageBitmap::allocate_page: find_and_set returns the first page whose
\* layer-0 bit is 0 (the upper layers only skip full groups of 8)
allocate_page(bits) == Min({ i \in 0..Cardinality(bits) : i \notin bits })

\* the page read at data_id (pages never written are zero bytes)
PageAt(data, data_id) ==
    IF data_id \in DOMAIN data THEN data[data_id]
    ELSE Repeat(0, PageSize(LevelOf(data_id)))

\* PageBitmap::write_page: write_at puts the value at the start of the page
\* and leaves the rest of the page as it was
PageAfterWrite(old, value) == value \o Slice(old, Len(value), Len(old))

\* LevelPage::write: [data_id, bits, data] after storing value
LevelWrite(bits, data, value) ==
    LET lvl  == TargetLevel(Len(value))
        page == allocate_page(bits[lvl])
        id   == EncodeDataId(lvl, page)
    IN  [data_id |-> id,
         bits |-> [bits EXCEPT ![lvl] = @ \cup {page}],
         data |-> [d \in DOMAIN data \cup {id} |->
                      IF d = id THEN PageAfterWrite(PageAt(data, id), value)
                      ELSE data[d]]]

\* LevelPage::free
LevelFree(bits, data_id) == [bits EXCEPT ![LevelOf(data_id)] = @ \ {PageOf(data_id)}]

\* LevelPage::read: the whole page
LevelRead(data, data_id) == PageAt(data, data_id)

NoData == [d \in {} |-> <<>>]

----------------------------------------------------------------------------
(* kv/data/level_page_bitmap/page_bitmap.rs in detail: the layers of the   *)
(* bitmap, the index file and the data file of one PageBitmap.  A layer is *)
(* a sequence of bits (element i+1 of the sequence is bit i of the source) *)
(* and layer 0 is levels[1].  The index file is kept as its bits.          *)

\* number of layers PageBitmap::new builds.  The source builds 4 layers of
\* 8^4, 8^3, 8^2 and 8 bits (4096 pages); the model keeps the fan-out of 8
\* and the 8-bit top layer and builds 2 layers (64 pages), so that a store
\* reaches growth after 56 allocations instead of 3584.
InitLayers == 2

RECURSIVE Pow8(_)
Pow8(n) == IF n = 0 THEN 1 ELSE 8 * Pow8(n - 1)

\* the initial number of pages (4096 in the source)
InitPages == Pow8(InitLayers)

Zeros(n) == [i \in 1..n |-> FALSE]

\* bits i..j-1 (0-based) of a layer are all 1: levels[lvl][i..j].all()
AllOnes(layer, i, j) == \A x \in (i + 1)..j : layer[x]

\* PageBitmap::new on empty files
PageBitmapNew(page_size) ==
    [levels     |-> [k \in 1..InitLayers |-> Zeros(Pow8(InitLayers - k + 1))],
     page_size  |-> page_size,
     index_file |-> Zeros(InitPages),
     data_len   |-> InitPages * page_size,
     data       |-> NoData,
     panicked   |-> FALSE]

\* expand_and_zero on the index file (fallocate FALLOC_FL_ZERO_RANGE): bytes
\* n1..n2-1 read zero afterwards and the file is at least n2 bytes long
ExpandIndexFile(bits, n1, n2) ==
    IF n2 = n1 THEN bits
    ELSE [i \in 1..(IF Len(bits) > 8 * n2 THEN Len(bits) ELSE 8 * n2) |->
             IF i > 8 * n1 /\ i <= 8 * n2 THEN FALSE
             ELSE IF i <= Len(bits) THEN bits[i] ELSE FALSE]

\* a zero range that starts at the head of the data file instead of at
\* first_page: what expand_and_zero must not do
ExpandDataFileFromHead(pb, first_page, end_page) ==
    IF end_page = first_page THEN pb
    ELSE [pb EXCEPT
            !.data_len = IF @ > end_page * pb.page_size THEN @ ELSE end_page * pb.page_size,
            !.data = [p \in { q \in DOMAIN pb.data : q >= end_page } |-> pb.data[p]]]

\* expand_and_zero on the data file, for a range of whole pages
ExpandDataFile(pb, first_page, end_page) ==
    IF end_page = first_page THEN pb
    ELSE [pb EXCEPT
            !.data_len = IF @ > end_page * pb.page_size THEN @ ELSE end_page * pb.page_size,
            !.data = [p \in { q \in DOMAIN pb.data : q < first_page \/ q >= end_page } |->
                         pb.data[p]]]

\* growth of the index file alone
ExpandFilesIndexOnly(pb) ==
    [pb EXCEPT !.index_file =
        ExpandIndexFile(@, Len(pb.levels[1]) \div 8,
                        (Len(pb.levels[1]) + Pow8(Len(pb.levels))) \div 8)]

\* expand_if_need, step 1: the files grow by 8^(number of layers) pages
ExpandFiles(pb) ==
    LET before_len == Len(pb.levels[1])
        after_len  == before_len + Pow8(Len(pb.levels))
        grown      == ExpandDataFile(pb, before_len, after_len)
    IN  [grown EXCEPT !.index_file =
            ExpandIndexFile(pb.index_file, before_len \div 8, after_len \div 8)]

\* expand_if_need, step 2: the top layer grows by 1 bit, each layer below by
\* 8 times the one above
ExpandLayers(levels) ==
    [k \in 1..Len(levels) |-> levels[k] \o Zeros(Pow8(Len(levels) - k))]

\* expand_if_need, step 3: a new top layer of 8 bits once the top has 64
AddTopLayer(levels) ==
    LET next_layer == levels[Len(levels)]
    IN  IF Len(next_layer) = 64
        THEN Append(levels,
                    [i \in 1..8 |->
                        AllOnes(next_layer, (i - 1) * 8,
                                Min({i * 8, Len(next_layer)}))])
        ELSE levels

\* an allocator that never grows
expand_never(pb) == pb

\* PageBitmap::expand_if_need
expand_if_need(pb) ==
    LET top_level  == pb.levels[Len(pb.levels)]
        zero_count == Cardinality({ i \in 1..Len(top_level) : ~top_level[i] })
    IN  IF zero_count > 1 THEN pb
        ELSE [ExpandFiles(pb) EXCEPT !.levels = AddTopLayer(ExpandLayers(pb.levels))]

\* a search that takes the last 0 bit of layer 0 instead of the first
find_last_free(levels, lvl, start_index) ==
    LET free == { i \in 0..(Len(levels[1]) - 1) : ~levels[1][i + 1] }
    IN  IF free = {} THEN -1
        ELSE CHOOSE i \in free : \A j \in free : j <= i

\* find_and_set of allocate_page: the layer-0 bit it sets, -1 for None.
\* lvl is the 0-based layer index of the source.  At layer 0 the loop stops
\* at the first 0 bit from start_index on; at an upper layer it skips the 1
\* bits and descends, from the first child on, into each 0 bit in turn
\* until a descent finds a bit.
RECURSIVE find_and_set(_, _, _)
find_and_set(levels, lvl, start_index) ==
    LET len == Len(levels[lvl + 1])
        hit == IF lvl = 0
               THEN { i \in start_index..(len - 1) : ~levels[1][i + 1] }
               ELSE { i \in start_index..(len - 1) :
                        /\ ~levels[lvl + 1][i + 1]
                        /\ find_and_set(levels, lvl - 1, i * 8) # -1 }
    IN  IF hit = {} THEN -1
        ELSE IF lvl = 0 THEN Min(hit)
        ELSE find_and_set(levels, lvl - 1, Min(hit) * 8)

\* allocate_page, "Update parent layers": from layer lvl upwards, mark the
\* parent of idx when its 8 children are 1, stop at the first that is not;
\* the range of 8 children must lie in the layer
RECURSIVE MarkParents(_, _, _)
MarkParents(levels, lvl, idx) ==
    IF lvl >= Len(levels) - 1 THEN [ok |-> TRUE, levels |-> levels]
    ELSE LET parent_idx == idx \div 8
         IN  IF (parent_idx + 1) * 8 > Len(levels[lvl + 1])
             THEN [ok |-> FALSE, levels |-> levels]
             ELSE IF AllOnes(levels[lvl + 1], parent_idx * 8, (parent_idx + 1) * 8)
             THEN MarkParents([levels EXCEPT ![lvl + 2][parent_idx + 1] = TRUE],
                              lvl + 1, parent_idx)
             ELSE [ok |-> TRUE, levels |-> levels]

\* set_file_bit and the index update of allocate_page
set_file_bit(bits, page_idx, value) == [bits EXCEPT ![page_idx + 1] = value]

\* allocate_page once find_and_set has returned allocated in the grown
\* bitmap: the layer-0 bit, the index file bit, the parents
AllocateAt(grown, allocated) ==
    IF allocated = -1
    THEN [page |-> -1, pb |-> [grown EXCEPT !.panicked = TRUE]]
    ELSE CHOOSE r \in
           { [page |-> IF up.ok THEN allocated ELSE -1,
              pb |-> [grown EXCEPT
                        !.levels = up.levels,
                        !.index_file = set_file_bit(@, allocated, TRUE),
                        !.panicked = ~up.ok]] :
             up \in { MarkParents(set, 0, allocated) :
                      set \in {[grown.levels EXCEPT ![1][allocated + 1] = TRUE]} } } : TRUE

\* PageBitmap::allocate_page: [page, pb]; find_and_set(..).unwrap() panics
\* on None.  (x \in {e} binds x to the value of e, computed once.)
AllocatePage(pb) ==
    CHOOSE r \in
      { AllocateAt(grown, find_and_set(grown.levels, Len(grown.levels) - 1, 0)) :
        grown \in {expand_if_need(pb)} } : TRUE

\* write_page once allocate_page has returned a
WriteAt(page_size, a, data) ==
    IF a.page = -1 THEN [res |-> "panic", page |-> -1, pb |-> a.pb]
    ELSE IF Len(data) > page_size
    THEN [res |-> "Err", page |-> a.page, pb |-> a.pb]
    ELSE [res |-> "Ok", page |-> a.page,
          pb |-> [a.pb EXCEPT !.data =
                    [p \in DOMAIN a.pb.data \cup {a.page} |->
                        IF p = a.page
                        THEN PageAfterWrite(
                                 IF p \in DOMAIN a.pb.data THEN a.pb.data[p]
                                 ELSE Repeat(0, page_size), data)
                        ELSE a.pb.data[p]]]]

\* PageBitmap::write_page: [res, page, pb].  The page is allocated before
\* the length of the data is checked.
write_page(pb, data) ==
    CHOOSE r \in { WriteAt(pb.page_size, a, data) : a \in {AllocatePage(pb)} } : TRUE

\* PageBitmap::read_page
read_page(pb, page_idx) ==
    IF page_idx \in DOMAIN pb.data THEN pb.data[page_idx]
    ELSE Repeat(0, pb.page_size)

\* a free_page that leaves the ancestors as they are
UpdateParentsSkipped(levels, lvl, child_idx) == [ok |-> TRUE, levels |-> levels]

\* free_page, "Update parent levels": every ancestor of child_idx is set to
\* the conjunction of its 8 children; the range of 8 must lie in the layer
RECURSIVE UpdateParents(_, _, _)
UpdateParents(levels, lvl, child_idx) ==
    IF lvl >= Len(levels) - 1 THEN [ok |-> TRUE, levels |-> levels]
    ELSE LET parent_idx == child_idx \div 8
         IN  IF (parent_idx + 1) * 8 > Len(levels[lvl + 1])
             THEN [ok |-> FALSE, levels |-> levels]
             ELSE UpdateParents(
                      [levels EXCEPT ![lvl + 2][parent_idx + 1] =
                          AllOnes(levels[lvl + 1], parent_idx * 8, (parent_idx + 1) * 8)],
                      lvl + 1, parent_idx)

\* PageBitmap::free_page of a page of the bitmap
free_page(pb, idx) ==
    CHOOSE r \in
      { [pb EXCEPT !.index_file = set_file_bit(@, idx, FALSE),
                   !.levels = up.levels,
                   !.panicked = ~up.ok] :
        up \in { UpdateParents(cleared, 0, idx) :
                 cleared \in {[pb.levels EXCEPT ![1][idx + 1] = FALSE]} } } : TRUE

\* recover_from_file, "Build upper levels": while the last layer has more
\* than 8 bits, push the conjunction of each chunk of 8 (the last chunk may
\* be shorter)
RECURSIVE BuildUpper(_)
BuildUpper(levels) ==
    IF Len(levels[Len(levels)]) > 8
    THEN CHOOSE r \in
           { BuildUpper(Append(levels,
                 [i \in 1..((Len(lower) + 7) \div 8) |->
                     AllOnes(lower, (i - 1) * 8, Min({i * 8, Len(lower)}))])) :
             lower \in {levels[Len(levels)]} } : TRUE
    ELSE levels

\* the size checks of recover_from_file
FilesConsistent(pb) ==
    /\ pb.data_len % pb.page_size = 0
    /\ pb.data_len = (Len(pb.index_file) \div 8) * 8 * pb.page_size

\* a re-open that builds the layers of a new bitmap and ignores the index file
recover_as_new(pb) ==
    [res |-> "Ok",
     pb |-> [pb EXCEPT !.levels = PageBitmapNew(pb.page_size).levels,
                       !.panicked = FALSE]]

\* PageBitmap::recover_from_file: [res, pb]
recover_from_file(pb) ==
    IF ~FilesConsistent(pb) THEN [res |-> "Err", pb |-> pb]
    ELSE [res |-> "Ok",
          pb |-> [pb EXCEPT !.levels = BuildUpper(<<pb.index_file>>),
                            !.panicked = FALSE]]

\* LevelPage::new on an empty directory: one PageBitmap per page size
LevelPageNew == [l \in 0..(LevelCount - 1) |-> PageBitmapNew(PageSize(l))]

\* LevelPage::write: [res, data_id, levels]
LevelPageWrite(lp, value) ==
    CHOOSE r \in
      { [res |-> w.res,
         data_id |-> EncodeDataId(TargetLevel(Len(value)), w.page),
         levels |-> [lp EXCEPT ![TargetLevel(Len(value))] = w.pb]] :
        w \in {write_page(lp[TargetLevel(Len(value))], value)} } : TRUE

\* LevelPage::free
LevelPageFree(lp, data_id) ==
    [lp EXCEPT ![LevelOf(data_id)] = free_page(@, PageOf(data_id))]

\* LevelPage::read
LevelPageRead(lp, data_id) == read_page(lp[LevelOf(data_id)], PageOf(data_id))

\* LevelPage::new on an existing directory: every PageBitmap is recovered
LevelPageReopen(lp) == [l \in DOMAIN lp |-> recover_from_file(lp[l]).pb]

LevelPageReopenOk(lp) == \A l \in DOMAIN lp : recover_from_file(lp[l]).res = "Ok"

----------------------------------------------------------------------------
(* kv.rs: the KV facade *)

\* Inputs of the model: the key sizes an instance is created with, the keys
\* and values the callers use.  A key of one byte has the wrong length for
\* every instance.
KeySizes == {DefaultKeySize - 1, DefaultKeySize}
Keys(ks) == {Repeat(2, ks), Repeat(3, ks)}
BadKey == <<2>>
Values == {<<>>, <<7>>}
\* two-op batches: the first op on the first key or the bad key, the second
\* on either key or the bad key
BatchFirst(ks) == {Op(Repeat(2, ks), Put(<<7>>)), Op(Repeat(2, ks), Del),
                   Op(BadKey, Put(<<7>>))}
BatchSecond(ks) == {Op(Repeat(2, ks), Put(<<>>)), Op(Repeat(2, ks), Del),
                    Op(Repeat(3, ks), Put(<<>>)), Op(BadKey, Del)}
Batches(ks) == {<<a, b>> : a \in BatchFirst(ks), b \in BatchSecond(ks)}

NoOp == [type |-> "None", value |-> <<>>]

\* Option<Vec<u8>> / KVError returned by get
Some(v) == [res |-> "Some", value |-> v]
None == [res |-> "None", value |-> <<>>]
Failed(e) == [res |-> e, value |-> <<>>]

\* get: what a buffered op answers
OpResult(op) == IF op.type = "Put" THEN Some(op.value) ELSE None

\* get: the flushing buffer that answers, among those holding the key
\* (flushing_buffers.iter() visits index 0 first)
FirstHit(hits) == Min(hits)

\* get: the index and value-store path
IndexGet(bs, data, key) ==
    LET r == BucketsGet(bs, key)
    IN  IF r.res = "InvalidKeyLength" THEN Failed("InvalidKeyLength")
        ELSE IF r.res = "None" THEN None
        ELSE Some(Slice(LevelRead(data, r.value.data_id), 0, r.value.data_len))

\* KV::get
KVGet(key) ==
    IF key \in DOMAIN current_buffer THEN OpResult(current_buffer[key])
    ELSE LET hits == { i \in 1..Len(flushing_buffers) :
                          key \in DOMAIN flushing_buffers[i].buffer }
         IN  IF hits # {}
             THEN OpResult(flushing_buffers[FirstHit(hits)].buffer[key])
             ELSE IndexGet(buckets, lp_data, key)

\* WAL::open: the file is created when missing
WALOpen(files, id) ==
    IF id \in DOMAIN files THEN files
    ELSE [i \in DOMAIN files \cup {id} |-> IF i = id THEN <<>> ELSE files[i]]

RemoveFile(files, id) == [i \in DOMAIN files \ {id} |-> files[i]]

\* do_batch: rotate when the end offset returned by write_record exceeds
\* wal_flush_size
NeedRotate(size) == size > wal_flush_size

\* the flusher holds the read lock of flushing_buffers from the head
\* snapshot until the sealed WAL file is removed
FlusherHoldsReadLock == fl_pc \in {"apply", "index_put", "free"}

\* the history of acknowledged ops after a batch returned Ok
RECURSIVE AckAll(_, _)
AckAll(h, ops) ==
    IF ops = <<>> THEN h
    ELSE LET e == Head(ops)
         IN  AckAll([h EXCEPT !.acked[e.key] = e.op,
                              !.prev[e.key] = h.acked[e.key]],
                    Tail(ops))

\* KV::new on an empty directory
KVInit ==
    /\ key_size \in KeySizes
    /\ wal_files = [i \in {0} |-> <<>>]
    /\ meta_file = [current_wal_id |-> 0, key_size |-> key_size]
    /\ buckets = NewBuckets
    /\ lp_bits = NewLevels
    /\ lp_data = NoData
    /\ current_wal = [id |-> 0, end_offset |-> 0]
    /\ current_wal_id = 0
    /\ current_buffer = EmptyBuffer
    /\ flushing_buffers = <<>>
    /\ flush_lock = "free"
    /\ fl_spawned = 0
    /\ fl_pc = "none"
    /\ fl_todo = {}
    /\ fl_key = <<>>
    /\ fl_data_id = 0
    /\ fl_err = "none"
    /\ last_call = [name |-> "new", ops |-> <<>>, res |-> "Ok"]
    /\ acked = [k \in Keys(key_size) |-> NoOp]
    /\ prev_acked = [k \in Keys(key_size) |-> NoOp]
    /\ nops = 0
    /\ crashes = 0

\* the WAL file exercised alone is not used by the KV specification
WtIdle ==
    /\ wt_file = <<>>
    /\ wt_end = 0
    /\ wt_written = <<>>
    /\ wt_cut = FALSE
    /\ wt_replayed = [done |-> FALSE, payloads |-> <<>>]

\* the value store exercised alone is not opened
StIdle ==
    /\ st_levels = <<>>
    /\ st_live = <<>>
    /\ st_last = [op |-> "none", data_id |-> 0, res |-> "Ok"]
    /\ st_ops = 0
    /\ st_reopens = 0

\* the bucket exercised alone is not opened
BkIdle ==
    /\ bk = <<>>
    /\ bk_before = <<>>
    /\ bk_last = "none"
    /\ bk_ops = 0
    /\ bk_tmp = <<>>

\* the locks exercised alone are not in use
LkIdle ==
    /\ lk_pc = <<>>
    /\ lk_locks = <<>>
    /\ lk_held = <<>>
    /\ lk_queue = 0
    /\ lk_policy = "none"
    /\ lk_failing = FALSE

\* the index exercised alone is not opened
IxIdle ==
    /\ ix = <<>>
    /\ ix_last = [op |-> "none", key |-> <<>>, value |-> DataInfo(0, 0), res |-> "Ok"]
    /\ ix_ops = 0

\* the PageBitmap called by concurrent threads is not opened
AlIdle ==
    /\ al_pb = <<>>
    /\ al_th = <<>>
    /\ al_locks = <<>>
    /\ al_held = <<>>
    /\ al_dup = FALSE
    /\ al_ops = 0

Init == KVInit /\ WtIdle /\ StIdle /\ BkIdle /\ LkIdle /\ IxIdle /\ AlIdle

fileVars == <<wal_files, meta_file, buckets, lp_bits, lp_data>>
flusherVars == <<flush_lock, fl_spawned, fl_pc, fl_todo, fl_key, fl_data_id, fl_err>>
historyVars == <<acked, prev_acked>>

\* KV::do_batch
do_batch(name, ops) ==
    /\ nops < MaxOps
    /\ nops' = nops + 1
    /\ UNCHANGED <<key_size, meta_file, buckets, lp_bits, lp_data, crashes, unitVars>>
    /\ UNCHANGED <<flush_lock, fl_pc, fl_todo, fl_key, fl_data_id, fl_err>>
    /\ IF ~ValidBatch(ops, key_size)
       THEN /\ last_call' = [name |-> name, ops |-> ops, res |-> "InvalidKeyLength"]
            /\ UNCHANGED <<wal_files, current_wal, current_wal_id, current_buffer,
                           flushing_buffers, fl_spawned, historyVars>>
       ELSE LET rec      == RecordBytes(BatchPayload(ops, key_size))
                size     == current_wal.end_offset + Len(rec)
                written  == [wal_files EXCEPT ![current_wal.id] = @ \o rec]
                next_id  == current_wal_id + 1
                opened   == WALOpen(written, next_id)
                folded   == Fold(current_buffer, ops)
                h        == AckAll([acked |-> acked, prev |-> prev_acked], ops)
            IN  /\ IF NeedRotate(size)
                   THEN /\ ~FlusherHoldsReadLock
                        /\ wal_files' = opened
                        /\ current_wal' = [id |-> next_id, end_offset |-> Len(opened[next_id])]
                        /\ current_wal_id' = next_id
                        /\ current_buffer' = EmptyBuffer
                        /\ flushing_buffers' =
                              Append(flushing_buffers,
                                     [buffer |-> folded, wal_id |-> current_wal_id])
                        \* trigger_async_flush: spawn when try_lock succeeds
                        /\ fl_spawned' = IF flush_lock = "free"
                                         THEN fl_spawned + 1 ELSE fl_spawned
                   ELSE /\ wal_files' = written
                        /\ current_wal' = [current_wal EXCEPT !.end_offset = size]
                        /\ current_buffer' = folded
                        /\ UNCHANGED <<current_wal_id, flushing_buffers, fl_spawned>>
                /\ last_call' = [name |-> name, ops |-> ops, res |-> "Ok"]
                /\ acked' = h.acked
                /\ prev_acked' = h.prev

\* KV::do_batch when WAL::open of the next WAL file fails: write_record has
\* appended the record, `?` returns the error before the buffer is touched
do_batch_open_err(name, ops) ==
    LET rec  == RecordBytes(BatchPayload(ops, key_size))
        size == current_wal.end_offset + Len(rec)
    IN  /\ nops < MaxOps
        /\ ValidBatch(ops, key_size)
        /\ NeedRotate(size)
        /\ nops' = nops + 1
        /\ wal_files' = [wal_files EXCEPT ![current_wal.id] = @ \o rec]
        /\ current_wal' = [current_wal EXCEPT !.end_offset = size]
        /\ last_call' = [name |-> name, ops |-> ops, res |-> "Io"]
        /\ UNCHANGED <<key_size, meta_file, buckets, lp_bits, lp_data, crashes, unitVars>>
        /\ UNCHANGED <<current_wal_id, current_buffer, flushing_buffers, flusherVars,
                       historyVars>>

\* KV::put
put(key, value) == do_batch("put", <<Op(key, Put(value))>>)

\* KV::delete
delete(key) == do_batch("delete", <<Op(key, Del)>>)

----------------------------------------------------------------------------
(* kv.rs: trigger_async_flush, the flusher thread *)

writerVars == <<current_wal, current_wal_id, current_buffer, last_call, historyVars, nops>>

\* a spawned thread that enters the loop without waiting for flush_lock
FlusherStartNoLock ==
    /\ fl_spawned > 0
    /\ flush_lock' = "held"
    /\ fl_spawned' = fl_spawned - 1
    /\ fl_pc' = "head"
    /\ UNCHANGED <<key_size, fileVars, writerVars, flushing_buffers, fl_todo, fl_key,
                   fl_data_id, fl_err, crashes, unitVars>>

\* a spawned thread gets flush_lock (flush_lock.lock())
FlusherStart ==
    /\ fl_spawned > 0
    /\ flush_lock = "free"
    /\ flush_lock' = "held"
    /\ fl_spawned' = fl_spawned - 1
    /\ fl_pc' = "head"
    /\ UNCHANGED <<key_size, fileVars, writerVars, flushing_buffers, fl_todo, fl_key,
                   fl_data_id, fl_err, crashes, unitVars>>

\* top of the loop: read lock, is_empty, get(0)
FlusherHead ==
    /\ fl_pc = "head"
    /\ IF flushing_buffers = <<>>
       THEN /\ fl_pc' = "exit"
            /\ UNCHANGED fl_todo
       ELSE /\ fl_pc' = "apply"
            /\ fl_todo' = DOMAIN flushing_buffers[1].buffer
    /\ UNCHANGED <<key_size, fileVars, writerVars, flushing_buffers, flush_lock,
                   fl_spawned, fl_key, fl_data_id, fl_err, crashes, unitVars>>

\* a flusher that records the page size instead of the value length
DataLenPage(value) == PageSize(TargetLevel(Len(value)))

\* the data_len the flusher stores beside the data_id
DataLen(value) == Len(value)

\* for (key, op): a Put writes its value to the value store
FlusherWrite ==
    /\ fl_pc = "apply"
    /\ \E key \in fl_todo :
         LET op == flushing_buffers[1].buffer[key]
             w  == LevelWrite(lp_bits, lp_data, op.value)
         IN  /\ op.type = "Put"
             /\ fl_key' = key
             /\ fl_data_id' = w.data_id
             /\ lp_bits' = w.bits
             /\ lp_data' = w.data
    /\ fl_pc' = "index_put"
    /\ UNCHANGED <<key_size, wal_files, meta_file, buckets, writerVars, flushing_buffers,
                   flush_lock, fl_spawned, fl_todo, fl_err, crashes, unitVars>>

\* ... then puts (key, DataInfo) into the index, retrying while it fails
FlusherIndexPut ==
    /\ fl_pc = "index_put"
    /\ LET value == flushing_buffers[1].buffer[fl_key].value
           r     == BucketsPut(buckets, fl_key, DataInfo(fl_data_id, DataLen(value)))
       IN  IF r.res = "Ok"
           THEN /\ buckets' = r.buckets
                /\ fl_todo' = fl_todo \ {fl_key}
                /\ fl_pc' = "apply"
                /\ UNCHANGED fl_err
           ELSE /\ fl_err' = r.res
                /\ UNCHANGED <<buckets, fl_todo, fl_pc>>
    /\ UNCHANGED <<key_size, wal_files, meta_file, lp_bits, lp_data, writerVars,
                   flushing_buffers, flush_lock, fl_spawned, fl_key, fl_data_id,
                   crashes, unitVars>>

\* for (key, op): a Del removes the key from the index, retrying while it fails
FlusherIndexDel ==
    /\ fl_pc = "apply"
    /\ \E key \in fl_todo :
         LET op == flushing_buffers[1].buffer[key]
             r  == BucketsDel(buckets, key)
         IN  /\ op.type = "Del"
             /\ fl_key' = key
             /\ IF r.res = "Some"
                THEN /\ buckets' = r.buckets
                     /\ fl_data_id' = r.value.data_id
                     /\ fl_pc' = "free"
                     /\ UNCHANGED <<fl_todo, fl_err>>
                ELSE IF r.res = "None"
                THEN /\ fl_todo' = fl_todo \ {key}
                     /\ UNCHANGED <<buckets, fl_data_id, fl_pc, fl_err>>
                ELSE /\ fl_err' = r.res
                     /\ UNCHANGED <<buckets, fl_data_id, fl_pc, fl_todo>>
    /\ UNCHANGED <<key_size, wal_files, meta_file, lp_bits, lp_data, writerVars,
                   flushing_buffers, flush_lock, fl_spawned, crashes, unitVars>>

\* ... and frees the page of the DataInfo the index returned
FlusherFree ==
    /\ fl_pc = "free"
    /\ lp_bits' = LevelFree(lp_bits, fl_data_id)
    /\ fl_todo' = fl_todo \ {fl_key}
    /\ fl_pc' = "apply"
    /\ UNCHANGED <<key_size, wal_files, meta_file, buckets, lp_data, writerVars,
                   flushing_buffers, flush_lock, fl_spawned, fl_key, fl_data_id,
                   fl_err, crashes, unitVars>>

\* after the for loop: remove the sealed WAL file, release the read lock
FlusherRemoveWal ==
    /\ fl_pc = "apply"
    /\ fl_todo = {}
    /\ wal_files' = RemoveFile(wal_files, flushing_buffers[1].wal_id)
    /\ fl_pc' = "pop"
    /\ UNCHANGED <<key_size, meta_file, buckets, lp_bits, lp_data, writerVars,
                   flushing_buffers, flush_lock, fl_spawned, fl_todo, fl_key,
                   fl_data_id, fl_err, crashes, unitVars>>

\* a flusher that removes the newest sealed buffer instead of the head
FlusherPopLast ==
    /\ fl_pc = "pop"
    /\ flushing_buffers' = SubSeq(flushing_buffers, 1, Len(flushing_buffers) - 1)
    /\ fl_pc' = "head"
    /\ UNCHANGED <<key_size, fileVars, writerVars, flush_lock, fl_spawned, fl_todo,
                   fl_key, fl_data_id, fl_err, crashes, unitVars>>

\* write lock, remove(0), next iteration
FlusherPop ==
    /\ fl_pc = "pop"
    /\ flushing_buffers' = Tail(flushing_buffers)
    /\ fl_pc' = "head"
    /\ UNCHANGED <<key_size, fileVars, writerVars, flush_lock, fl_spawned, fl_todo,
                   fl_key, fl_data_id, fl_err, crashes, unitVars>>

\* return: the guard of flush_lock is dropped
FlusherExit ==
    /\ fl_pc = "exit"
    /\ flush_lock' = "free"
    /\ fl_pc' = "none"
    /\ UNCHANGED <<key_size, fileVars, writerVars, flushing_buffers, fl_spawned,
                   fl_todo, fl_key, fl_data_id, fl_err, crashes, unitVars>>

----------------------------------------------------------------------------
(* kv.rs: KV::new on an existing directory, after the process was killed *)

\* the sequences that list the elements of S once each (read_dir order)
RECURSIVE Orders(_)
Orders(S) ==
    IF S = {} THEN {<<>>}
    ELSE UNION { {<<x>> \o o : o \in Orders(S \ {x})} : x \in S }

\* load: the buffer replayed from one WAL file
LoadBuffer(files, id, ks) == FoldRecords(EmptyBuffer, replay(files[id]), ks)

\* Kill the process at any point and open the directory again with the same
\* options: KV::new loads the meta file, opens the WAL it names, and load()
\* removes the newer WAL files and replays the others.
Reopen ==
    /\ crashes < MaxCrashes
    /\ crashes' = crashes + 1
    /\ LET cur    == meta_file.current_wal_id
           opened == WALOpen(wal_files, cur)
           kept   == { id \in DOMAIN opened : id <= cur }
           files  == [id \in kept |-> opened[id]]
       IN  /\ wal_files' = files
           /\ current_wal' = [id |-> cur, end_offset |-> Len(opened[cur])]
           /\ current_wal_id' = cur
           /\ current_buffer' = LoadBuffer(files, cur, key_size)
           /\ \E ord \in Orders(kept \ {cur}) :
                flushing_buffers' =
                    [i \in 1..Len(ord) |->
                        [buffer |-> LoadBuffer(files, ord[i], key_size), wal_id |-> ord[i]]]
    /\ flush_lock' = "free"
    /\ fl_spawned' = 0
    /\ fl_pc' = "none"
    /\ fl_todo' = {}
    /\ fl_key' = <<>>
    /\ fl_data_id' = 0
    /\ fl_err' = "none"
    /\ last_call' = [name |-> "new", ops |-> <<>>, res |-> "Ok"]
    /\ UNCHANGED <<key_size, meta_file, buckets, lp_bits, lp_data, historyVars, nops, unitVars>>

Next ==
    \/ \E k \in Keys(key_size) \cup {BadKey}, v \in Values : put(k, v)
    \/ \E k \in Keys(key_size) \cup {BadKey} : delete(k)
    \/ \E b \in Batches(key_size) : do_batch("do_batch", b)
    \/ FlusherStart
    \/ FlusherHead
    \/ FlusherWrite
    \/ FlusherIndexPut
    \/ FlusherIndexDel
    \/ FlusherFree
    \/ FlusherRemoveWal
    \/ FlusherPop
    \/ FlusherExit

\* one running instance
Spec == Init /\ [][Next]_vars

NextCrash == Next \/ Reopen

\* the instance, the process being killed and the directory re-opened
SpecCrash == Init /\ [][NextCrash]_vars

NextIo ==
    \/ Next
    \/ \E k \in Keys(key_size), v \in Values :
           do_batch_open_err("put", <<Op(k, Put(v))>>)

\* the instance on a directory where opening a new WAL file can fail
SpecIo == Init /\ [][NextIo]_vars

----------------------------------------------------------------------------
(* kv.rs: KV::new and load on a directory that holds a meta file and WAL   *)
(* files.  The directory is the input of KV::new: kv.meta names the        *)
(* current WAL id and wal/ holds files <id>.wal.                           *)

\* ids of the WAL files the directory may hold
DirWalIds == 0..3

\* current_wal_id values the meta file of the directory may hold
DirMetaIds == {1, 2}

\* contents of a WAL file of the directory: empty, or the record of one
\* accepted put or delete
DirFiles(ks) ==
    {<<>>,
     RecordBytes(BatchPayload(<<Op(Repeat(2, ks), Put(<<7>>))>>, ks)),
     RecordBytes(BatchPayload(<<Op(Repeat(3, ks), Del)>>, ks))}

\* no instance is open yet
InitDir ==
    /\ key_size = DefaultKeySize
    /\ \E cur \in DirMetaIds : meta_file = [current_wal_id |-> cur, key_size |-> key_size]
    /\ \E ids \in SUBSET DirWalIds : wal_files \in [ids -> DirFiles(key_size)]
    /\ buckets = NewBuckets
    /\ lp_bits = NewLevels
    /\ lp_data = NoData
    /\ current_wal = [id |-> 0, end_offset |-> 0]
    /\ current_wal_id = 0
    /\ current_buffer = EmptyBuffer
    /\ flushing_buffers = <<>>
    /\ flush_lock = "free"
    /\ fl_spawned = 0
    /\ fl_pc = "none"
    /\ fl_todo = {}
    /\ fl_key = <<>>
    /\ fl_data_id = 0
    /\ fl_err = "none"
    /\ last_call = [name |-> "none", ops |-> <<>>, res |-> "Ok"]
    /\ acked = [k \in Keys(key_size) |-> NoOp]
    /\ prev_acked = [k \in Keys(key_size) |-> NoOp]
    /\ nops = 0
    /\ crashes = 0
    /\ WtIdle
    /\ StIdle
    /\ BkIdle
    /\ LkIdle
    /\ IxIdle
    /\ AlIdle

NextLoad == Reopen

\* KV::new on such a directory
SpecLoad == InitDir /\ [][NextLoad]_vars

----------------------------------------------------------------------------
(* kv/wal.rs exercised alone: one WAL file, written, cut short by a kill    *)
(* during an append, and replayed                                           *)

WalPayloads == {<<>>, <<1>>, <<1, 2>>}

NotReplayed == [done |-> FALSE, payloads |-> <<>>]

InitWal ==
    /\ KVInit
    /\ key_size = DefaultKeySize
    /\ wt_file = <<>>
    /\ wt_end = 0
    /\ wt_written = <<>>
    /\ wt_cut = FALSE
    /\ wt_replayed = NotReplayed
    /\ StIdle
    /\ BkIdle
    /\ LkIdle
    /\ IxIdle
    /\ AlIdle

\* WAL::write_record on the open handle
write_record(payload) ==
    /\ ~wt_cut
    /\ Len(wt_written) < MaxRecords
    /\ wt_file' = wt_file \o RecordBytes(payload)
    /\ wt_end' = wt_end + Len(RecordBytes(payload))
    /\ wt_written' = Append(wt_written, payload)
    /\ wt_replayed' = NotReplayed
    /\ UNCHANGED <<wt_cut, kvVars, stVars, bkVars, lkVars, ixVars, alVars>>

\* the process is killed during an append: the file ends at byte n
CutFile(n) ==
    /\ ~wt_cut
    /\ wt_file' = Slice(wt_file, 0, n)
    /\ wt_cut' = TRUE
    /\ wt_replayed' = NotReplayed
    /\ UNCHANGED <<wt_end, wt_written, kvVars, stVars, bkVars, lkVars, ixVars, alVars>>

\* WAL::open of the file and WAL::replay with a callback collecting the payloads
Replay ==
    /\ wt_replayed' = [done |-> TRUE, payloads |-> replay(wt_file)]
    /\ UNCHANGED <<wt_file, wt_end, wt_written, wt_cut, kvVars, stVars, bkVars, lkVars, ixVars, alVars>>

NextWal ==
    \/ \E p \in WalPayloads : write_record(p)
    \/ \E n \in 0..Len(wt_file) : CutFile(n)
    \/ Replay

SpecWal == InitWal /\ [][NextWal]_vars

----------------------------------------------------------------------------
(* kv/data/level_page_bitmap.rs exercised alone: a LevelPage that already  *)
(* holds some pages is written, freed and re-opened from its files         *)

\* the value of the pages the store holds at the start
PrefillValue == <<9>>

\* the store lp after n more writes of PrefillValue, evaluated half by half
RECURSIVE WriteTimes(_, _)
WriteTimes(lp, n) ==
    IF n = 0 THEN lp
    ELSE IF n = 1 THEN LevelPageWrite(lp, PrefillValue).levels
    ELSE CHOOSE r \in { WriteTimes(half, n - (n \div 2)) :
                          half \in {WriteTimes(lp, n \div 2)} } : TRUE

\* the store after n writes of PrefillValue on an empty directory
Prefilled(n) == WriteTimes(LevelPageNew, n)

\* the values a store written with PrefillValue only holds: one for every
\* page allocated in the level of PrefillValue
PrefilledLive(lp) ==
    LET lvl == TargetLevel(Len(PrefillValue))
    IN  [d \in { EncodeDataId(lvl, i - 1) :
                   i \in { j \in 1..Len(lp[lvl].index_file) : lp[lvl].index_file[j] } }
            |-> PrefillValue]

\* numbers of pages held at the start: none, one short of 7 full groups of
\* the top layer (the next allocation but one grows the files), two short
\* of a full bitmap
PrefillCounts == {0, InitPages - 9, InitPages - 2}

\* values written: the empty value, two short ones, one of exactly the
\* smallest page size, one that needs the next page size
StoreValues == {<<>>, <<1>>, <<2, 2>>, Repeat(4, StartPageSize),
                Repeat(3, StartPageSize + 1)}

\* pages of the smallest level that callers free
FreePages == {0, InitPages - 9, InitPages - 1, InitPages}

Panicked(lp) == \E l \in DOMAIN lp : lp[l].panicked

InitStore ==
    /\ KVInit
    /\ key_size = DefaultKeySize
    /\ WtIdle
    /\ BkIdle
    /\ LkIdle
    /\ IxIdle
    /\ AlIdle
    /\ \E n \in PrefillCounts : st_levels = Prefilled(n)
    /\ st_live = PrefilledLive(st_levels)
    /\ st_last = [op |-> "new", data_id |-> 0, res |-> "Ok"]
    /\ st_ops = 0
    /\ st_reopens = 0

\* LevelPage::write(value)
StoreWrite(value) ==
    /\ st_ops < MaxStoreOps
    /\ ~Panicked(st_levels)
    /\ \E w \in {LevelPageWrite(st_levels, value)} :
           /\ st_levels' = w.levels
           /\ st_live' = IF w.res = "Ok" THEN st_live @@ (w.data_id :> value)
                         ELSE st_live
           /\ st_last' = [op |-> "write", data_id |-> w.data_id, res |-> w.res]
    /\ st_ops' = st_ops + 1
    /\ UNCHANGED <<st_reopens, kvVars, wtVars, bkVars, lkVars, ixVars, alVars>>

\* LevelPage::free(data_id) of an id a write returned
StoreFree(data_id) ==
    /\ st_ops < MaxStoreOps
    /\ ~Panicked(st_levels)
    /\ data_id \in DOMAIN st_live
    /\ LevelOf(data_id) = 0 => PageOf(data_id) \in FreePages
    /\ \E freed \in {LevelPageFree(st_levels, data_id)} :
           /\ st_levels' = freed
           /\ st_last' = [op |-> "free", data_id |-> data_id,
                          res |-> IF Panicked(freed) THEN "panic" ELSE "Ok"]
    /\ st_live' = [d \in DOMAIN st_live \ {data_id} |-> st_live[d]]
    /\ st_ops' = st_ops + 1
    /\ UNCHANGED <<st_reopens, kvVars, wtVars, bkVars, lkVars, ixVars, alVars>>

\* data handed to PageBitmap::write_page of the smallest level directly: a
\* short page, one byte more than the page holds
PageData == {<<5>>, Repeat(5, StartPageSize + 1)}

\* PageBitmap::write_page(data) on the bitmap of the smallest level
StoreWritePage(data) ==
    /\ st_ops < MaxStoreOps
    /\ ~Panicked(st_levels)
    /\ \E w \in {write_page(st_levels[0], data)} :
           /\ st_levels' = [st_levels EXCEPT ![0] = w.pb]
           /\ st_live' = IF w.res = "Ok"
                         THEN st_live @@ (EncodeDataId(0, w.page) :> data)
                         ELSE st_live
           /\ st_last' = [op |-> "write_page", data_id |-> EncodeDataId(0, w.page),
                          res |-> w.res]
    /\ st_ops' = st_ops + 1
    /\ UNCHANGED <<st_reopens, kvVars, wtVars, bkVars, lkVars, ixVars, alVars>>

\* the process ends and LevelPage::new opens the directory again
StoreReopen ==
    /\ st_reopens < MaxCrashes
    /\ st_levels' = IF LevelPageReopenOk(st_levels) THEN LevelPageReopen(st_levels)
                    ELSE st_levels
    /\ st_last' = [op |-> "reopen", data_id |-> 0,
                   res |-> IF LevelPageReopenOk(st_levels) THEN "Ok" ELSE "Err"]
    /\ st_reopens' = st_reopens + 1
    /\ UNCHANGED <<st_live, st_ops, kvVars, wtVars, bkVars, lkVars, ixVars, alVars>>

NextStore ==
    \/ \E v \in StoreValues : StoreWrite(v)
    \/ \E data \in PageData : StoreWritePage(data)
    \/ \E d \in DOMAIN st_live : StoreFree(d)
    \/ StoreReopen

SpecStore == InitStore /\ [][NextStore]_vars

----------------------------------------------------------------------------
(* kv/index/bucket.rs exercised alone: one Bucket<DataInfo> that callers   *)
(* put into, delete from and expand                                        *)

\* init_entry_num given to Bucket::new: a file of 4 slots
BkInitEntryNum == 4

\* keys of the bucket's key size: two whose probe window starts at the last
\* slot of a file of BkInitEntryNum slots and wraps, one that starts at slot 1
BkKeys == {Repeat(6, DefaultKeySize), Repeat(7, DefaultKeySize), Repeat(2, DefaultKeySize)}

BkValues == {DataInfo(1, 1), DataInfo(2, 1)}

InitBucket ==
    /\ KVInit
    /\ key_size = DefaultKeySize
    /\ WtIdle
    /\ StIdle
    /\ LkIdle
    /\ IxIdle
    /\ AlIdle
    /\ bk = NewBucket(BkInitEntryNum)
    /\ bk_before = NewBucket(BkInitEntryNum)
    /\ bk_last = "new"
    /\ bk_ops = 0
    /\ bk_tmp = <<>>

\* Bucket::put(key, value)
BkPut(key, value) ==
    /\ bk_ops < MaxBucketOps
    /\ bk' = BucketPut(bk, key, value).bucket
    /\ bk_before' = bk
    /\ bk_last' = "put"
    /\ bk_ops' = bk_ops + 1
    /\ UNCHANGED <<bk_tmp, kvVars, wtVars, stVars, lkVars, ixVars, alVars>>

\* Bucket::del(key)
BkDel(key) ==
    /\ bk_ops < MaxBucketOps
    /\ bk' = BucketDel(bk, key).bucket
    /\ bk_before' = bk
    /\ bk_last' = "del"
    /\ bk_ops' = bk_ops + 1
    /\ UNCHANGED <<bk_tmp, kvVars, wtVars, stVars, lkVars, ixVars, alVars>>

\* Bucket::expand(): the attempt that succeeds renames the temporary file
BkExpand ==
    /\ bk_ops < MaxBucketOps
    /\ bk' = expand(bk)
    /\ bk_before' = bk
    /\ bk_last' = "expand"
    /\ bk_ops' = bk_ops + 1
    /\ bk_tmp' = <<>>
    /\ UNCHANGED <<kvVars, wtVars, stVars, lkVars, ixVars, alVars>>

NextBucket ==
    \/ \E k \in BkKeys, v \in BkValues : BkPut(k, v)
    \/ \E k \in BkKeys : BkDel(k)
    \/ BkExpand

SpecBucket == InitBucket /\ [][NextBucket]_vars

\* new_entry_num handed to do_expand directly: too few slots for the entries
\* of the bucket, or twice the slots it has
RehashSizes(bucket) == {2, 2 * bucket.entry_num}

\* do_expand: the temporary file when the migration stops at an entry whose
\* probe window is full, or after the last entry
RECURSIVE TmpAfter(_, _, _)
TmpAfter(bucket, newb, i) ==
    LET rest == { j \in DOMAIN bucket.slots : j >= i /\ bucket.slots[j].meta = "Occupied" }
    IN  IF rest = {} THEN newb
        ELSE LET j == Min(rest)
                 e == bucket.slots[j]
             IN  IF NewFileProbes(newb, e.key) = {} THEN newb
                 ELSE TmpAfter(bucket,
                               WriteSlot(newb,
                                         ProbeIndex(newb, e.key, Min(NewFileProbes(newb, e.key))),
                                         e),
                               j + 1)

\* a do_expand that opens the temporary file an earlier attempt left
StaleTmp(tmp, new_entry_num) ==
    IF tmp = <<>> THEN NewBucket(new_entry_num)
    ELSE [tmp[1] EXCEPT !.entry_num = new_entry_num]

\* do_expand: remove_file_if_exists(tmp_path), create_file_with_len
FreshTmp(tmp, new_entry_num) == NewBucket(new_entry_num)

\* Bucket::do_expand(new_entry_num) called on its own.  io names the call
\* that returns an I/O error: none, the first read_at of the migration, or
\* rename.  The canonical file, the handle and entry_num change after the
\* rename only.
BkDoExpand(new_entry_num, io) ==
    /\ bk_ops < MaxBucketOps
    /\ \E fresh \in {FreshTmp(bk_tmp, new_entry_num)} :
         \E r \in {Migrate(bk, fresh, 0)} :
           IF io = "read_at"
           THEN /\ bk' = bk
                /\ bk_tmp' = <<fresh>>
                /\ bk_last' = "do_expand_err"
           ELSE IF r.res # "Ok"
           THEN /\ bk' = bk
                /\ bk_tmp' = <<TmpAfter(bk, fresh, 0)>>
                /\ bk_last' = "do_expand_err"
           ELSE IF io = "rename"
           THEN /\ bk' = bk
                /\ bk_tmp' = <<r.bucket>>
                /\ bk_last' = "do_expand_err"
           ELSE /\ bk' = r.bucket
                /\ bk_tmp' = <<>>
                /\ bk_last' = IF bk_tmp = <<>> THEN "do_expand"
                              ELSE "do_expand_retry"
    /\ bk_before' = bk
    /\ bk_ops' = bk_ops + 1
    /\ UNCHANGED <<kvVars, wtVars, stVars, lkVars, ixVars, alVars>>

NextRehash ==
    \/ NextBucket
    \/ \E n \in RehashSizes(bk), io \in {"none", "read_at", "rename"} : BkDoExpand(n, io)

\* the bucket with do_expand called on its own and with I/O errors
SpecRehash == InitBucket /\ [][NextRehash]_vars

----------------------------------------------------------------------------
(* kv/index/buckets.rs exercised alone: a Buckets<DataInfo> of small       *)
(* shards that callers put into and delete from                            *)

\* BucketsOptions.init_entry_num_for_each_bucket: shards of 4 slots
IxInitEntryNum == 4

\* keys of the index's key size: five of one shard, whose probe windows
\* start at the same slot of a shard of up to 32 slots
IxKeys == {Repeat(6, DefaultKeySize), Repeat(7, DefaultKeySize),
           Repeat(70, DefaultKeySize), Repeat(71, DefaultKeySize),
           Repeat(134, DefaultKeySize)}

IxValues == {DataInfo(1, 1), DataInfo(2, 1)}

InitIndex ==
    /\ KVInit
    /\ key_size = DefaultKeySize
    /\ WtIdle
    /\ StIdle
    /\ BkIdle
    /\ LkIdle
    /\ AlIdle
    /\ ix = [s \in 0..(DefaultBucketCount - 1) |-> NewBucket(IxInitEntryNum)]
    /\ ix_last = [op |-> "new", key |-> <<>>, value |-> DataInfo(0, 0), res |-> "Ok"]
    /\ ix_ops = 0

\* Buckets::put(key, value)
IxPut(key, value) ==
    /\ ix_ops < MaxIndexOps
    /\ \E r \in {BucketsPut(ix, key, value)} :
           /\ ix' = r.buckets
           /\ ix_last' = [op |-> "put", key |-> key, value |-> value, res |-> r.res]
    /\ ix_ops' = ix_ops + 1
    /\ UNCHANGED <<kvVars, wtVars, stVars, bkVars, lkVars, alVars>>

\* Buckets::del(key)
IxDel(key) ==
    /\ ix_ops < MaxIndexOps
    /\ \E r \in {BucketsDel(ix, key)} :
           /\ ix' = r.buckets
           /\ ix_last' = [op |-> "del", key |-> key, value |-> r.value, res |-> r.res]
    /\ ix_ops' = ix_ops + 1
    /\ UNCHANGED <<kvVars, wtVars, stVars, bkVars, lkVars, alVars>>

NextIndex ==
    \/ \E k \in IxKeys, v \in IxValues : IxPut(k, v)
    \/ \E k \in IxKeys : IxDel(k)

SpecIndex == InitIndex /\ [][NextIndex]_vars

----------------------------------------------------------------------------

(* kv.rs, buckets.rs, bucket.rs, page_bitmap.rs: the locks of one instance *)
(* exercised alone.  Foreground threads call do_batch and get, flusher     *)
(* threads run the closure of trigger_async_flush; each thread is at a     *)
(* position of its code and a step acquires or releases one lock.          *)

LkWriters == {"w1", "w2"}
LkReaders == {"g1"}
LkFlushers == {"f1", "f2"}
LkForeground == LkWriters \cup LkReaders
LkThreads == LkForeground \cup LkFlushers

\* flush_lock is a Mutex, the others are RwLocks (meta_lock is a Mutex too)
LkLocks == {"flush_lock", "current_wal", "current_buffer", "flushing_buffers",
            "shard", "inner_data", "meta_lock", "levels"}

\* the order in which the locks are documented to be taken
LkRank(l) ==
    CASE l = "flush_lock" -> 0
      [] l = "current_wal" -> 1
      [] l = "current_buffer" -> 2
      [] l = "flushing_buffers" -> 3
      [] l = "shard" -> 4
      [] l = "inner_data" -> 5
      [] l = "meta_lock" -> 6
      [] l = "levels" -> 7

\* one step of a thread: at position `at` it does `act` on `lock`, changes
\* the length of flushing_buffers by `queue` and continues at `to`
LkStepRec(at, act, lock, to, queue) ==
    [at |-> at, act |-> act, lock |-> lock, to |-> to, queue |-> queue]

St(at, act, lock, to) == LkStepRec(at, act, lock, to, 0)

\* a flusher thread can still be spawned
IdleFlusher == \E f \in LkFlushers : lk_pc[f] = "idle"

\* KV::do_batch
DoBatchCode ==
    {St("idle", "write", "current_wal", "wal_locked"),
     \* an op is refused, write_record or WAL::open fails: `?`
     St("wal_locked", "unlock", "current_wal", "idle"),
     St("wal_locked", "local", "none", "appended"),
     St("appended", "write", "current_buffer", "buf_locked"),
     St("buf_locked", "unlock", "current_buffer", "buf_done"),
     St("buf_done", "unlock", "current_wal", "idle"),
     \* flush_buffer = true
     St("rotated", "write", "current_buffer", "buf_sealing"),
     St("buf_sealing", "write", "flushing_buffers", "fb_locked"),
     LkStepRec("fb_locked", "unlock", "flushing_buffers", "trigger", 1)}
    \cup (IF lk_queue < MaxSealed /\ IdleFlusher
          THEN {St("wal_locked", "local", "none", "rotated")}
          ELSE {})

\* KV::get, with Buckets::get and Bucket::get
GetCode ==
    {St("idle", "read", "current_buffer", "buf_read"),
     \* found in current_buffer: return
     St("buf_read", "unlock", "current_buffer", "idle"),
     St("buf_read", "unlock", "current_buffer", "buf_miss"),
     St("buf_miss", "read", "flushing_buffers", "fb_read"),
     \* found in a sealed buffer: return
     St("fb_read", "unlock", "flushing_buffers", "idle"),
     St("fb_read", "local", "none", "index_get"),
     St("index_get", "read", "shard", "shard_read"),
     St("shard_read", "read", "inner_data", "inner_read"),
     St("inner_read", "unlock", "inner_data", "slot_read"),
     St("slot_read", "unlock", "shard", "index_done"),
     St("index_done", "unlock", "flushing_buffers", "idle")}

\* the flusher takes the write lock on the queue inside the block that holds
\* its read lock
FlusherUpgradesLock == St("remove_wal", "local", "none", "pop_wait")

\* the flusher releases its read lock on the queue before it takes the write
\* lock to remove the head
FlusherEndOfBlock == St("remove_wal", "unlock", "flushing_buffers", "pop_wait")

\* the closure of trigger_async_flush, with LevelPage::write / free
\* (PageBitmap::allocate_page, free_page) and Buckets::put / del
\* (Bucket::put, del, expand, do_expand)
FlusherCode ==
    {St("spawned", "write", "flush_lock", "loop"),
     St("loop", "read", "flushing_buffers", "head"),
     St("exit", "unlock", "flush_lock", "idle"),
     \* for (key, op) in &flushing_buffer.buffer
     St("op", "local", "none", "put"),
     St("op", "local", "none", "del"),
     St("op", "local", "none", "remove_wal"),
     \* KVOp::Put: level_page_bitmap.write, allocate_page
     St("put", "write", "meta_lock", "alloc_meta"),
     St("alloc_meta", "write", "levels", "expand_if_need"),
     St("expand_if_need", "unlock", "levels", "expanded"),
     St("expanded", "write", "levels", "alloc_both"),
     St("alloc_both", "unlock", "meta_lock", "find_and_set"),
     St("find_and_set", "unlock", "levels", "index_put"),
     \* write failed: the retry loop
     St("find_and_set", "unlock", "levels", "put"),
     \* buckets_index.put
     St("index_put", "write", "shard", "shard_locked"),
     St("bucket_put", "unlock", "inner_data", "bucket_put_ok"),
     St("bucket_put", "unlock", "inner_data", "bucket_full"),
     St("bucket_put_ok", "unlock", "shard", "op"),
     \* MaxSearchReached: bucket.expand(), then `continue`
     St("bucket_full", "read", "inner_data", "expand"),
     St("expand", "unlock", "inner_data", "do_expand"),
     St("do_expand", "read", "inner_data", "migrate"),
     St("migrate", "unlock", "inner_data", "migrated"),
     St("migrated", "local", "none", "do_expand"),
     St("migrated", "write", "inner_data", "swap"),
     St("swap", "unlock", "inner_data", "bucket_expanded"),
     St("bucket_expanded", "unlock", "shard", "index_put"),
     \* the put failed: the retry loop
     St("put_failed", "unlock", "shard", "index_put"),
     \* KVOp::Del: buckets_index.del, then level_page_bitmap.free
     St("del", "write", "shard", "del_shard"),
     St("del_shard", "read", "inner_data", "bucket_del"),
     St("bucket_del", "unlock", "inner_data", "del_slot"),
     St("del_slot", "unlock", "shard", "op"),
     St("del_slot", "unlock", "shard", "del"),
     St("del_slot", "unlock", "shard", "free"),
     St("free", "write", "levels", "free_page"),
     St("free_page", "unlock", "levels", "op"),
     St("free_page", "unlock", "levels", "free"),
     \* end of the block, then remove(0)
     FlusherEndOfBlock,
     St("pop_wait", "write", "flushing_buffers", "pop"),
     LkStepRec("pop", "unlock", "flushing_buffers", "loop", -1)}
    \cup (IF lk_queue = 0
          THEN {St("head", "unlock", "flushing_buffers", "exit")}
          ELSE {St("head", "local", "none", "op")})
    \cup (IF lk_failing
          THEN {St("shard_locked", "local", "none", "put_failed")}
          ELSE {St("shard_locked", "read", "inner_data", "bucket_put")})

LkCode(t) ==
    IF t \in LkWriters THEN DoBatchCode
    ELSE IF t \in LkReaders THEN GetCode
    ELSE FlusherCode

\* the steps thread t can take next
LkNextSteps(t) == {s \in LkCode(t) : s.at = lk_pc[t]}

LkFree(l) == lk_locks[l].writer = "none" /\ lk_locks[l].readers = {}

\* thread t is inside write() / lock() on l and has not got it
WaitsToWrite(t, l) ==
    \E s \in LkNextSteps(t) : s.act = "write" /\ s.lock = l /\ ~LkFree(l)

\* RwLock::write and Mutex::lock return when nobody holds the lock
CanWrite(l) == LkFree(l)

\* RwLock::read returns when no writer holds the lock; whether it also waits
\* for a writer that is waiting depends on the platform
CanRead(l) ==
    /\ lk_locks[l].writer = "none"
    /\ lk_policy = "writers_first" => ~\E u \in LkThreads : WaitsToWrite(u, l)

Holds(u, l) == lk_locks[l].writer = u \/ u \in lk_locks[l].readers

\* t cannot continue before u has made a step
WaitsFor(t, u) ==
    \E s \in LkNextSteps(t) :
        \/ s.act = "write" /\ ~LkFree(s.lock) /\ Holds(u, s.lock)
        \/ /\ s.act = "read"
           /\ ~CanRead(s.lock)
           /\ Holds(u, s.lock) \/ WaitsToWrite(u, s.lock)

\* the pairs (t, u) such that t waits for u
WaitGraph == {p \in LkThreads \X LkThreads : WaitsFor(p[1], p[2])}

Without(seq, l) == SelectSeq(seq, LAMBDA x : x # l)

InitLocks ==
    /\ KVInit
    /\ key_size = DefaultKeySize
    /\ WtIdle
    /\ StIdle
    /\ BkIdle
    /\ IxIdle
    /\ AlIdle
    /\ lk_pc = [t \in LkThreads |-> "idle"]
    /\ lk_locks = [l \in LkLocks |-> [writer |-> "none", readers |-> {}]]
    /\ lk_held = [t \in LkThreads |-> <<>>]
    /\ lk_queue = 0
    /\ lk_policy \in {"readers_first", "writers_first"}
    /\ lk_failing \in BOOLEAN

\* RwLock::write, Mutex::lock
LkAcquireWrite(t) ==
    \E s \in LkNextSteps(t) :
        /\ s.act = "write"
        /\ CanWrite(s.lock)
        /\ lk_locks' = [lk_locks EXCEPT ![s.lock].writer = t]
        /\ lk_held' = [lk_held EXCEPT ![t] = Append(@, s.lock)]
        /\ lk_pc' = [lk_pc EXCEPT ![t] = s.to]
        /\ UNCHANGED <<lk_queue, lk_policy, lk_failing, kvVars, wtVars, stVars, bkVars, ixVars, alVars>>

\* RwLock::read
LkAcquireRead(t) ==
    \E s \in LkNextSteps(t) :
        /\ s.act = "read"
        /\ CanRead(s.lock)
        /\ lk_locks' = [lk_locks EXCEPT ![s.lock].readers = @ \cup {t}]
        /\ lk_held' = [lk_held EXCEPT ![t] = Append(@, s.lock)]
        /\ lk_pc' = [lk_pc EXCEPT ![t] = s.to]
        /\ UNCHANGED <<lk_queue, lk_policy, lk_failing, kvVars, wtVars, stVars, bkVars, ixVars, alVars>>

\* a guard goes out of scope or is dropped
LkUnlock(t) ==
    \E s \in LkNextSteps(t) :
        /\ s.act = "unlock"
        /\ lk_locks' = [lk_locks EXCEPT ![s.lock] =
                            [writer |-> IF @.writer = t THEN "none" ELSE @.writer,
                             readers |-> @.readers \ {t}]]
        /\ lk_held' = [lk_held EXCEPT ![t] = Without(@, s.lock)]
        /\ lk_queue' = lk_queue + s.queue
        /\ lk_pc' = [lk_pc EXCEPT ![t] = s.to]
        /\ UNCHANGED <<lk_policy, lk_failing, kvVars, wtVars, stVars, bkVars, ixVars, alVars>>

\* code between two lock operations
LkLocal(t) ==
    \E s \in LkNextSteps(t) :
        /\ s.act = "local"
        /\ lk_pc' = [lk_pc EXCEPT ![t] = s.to]
        /\ UNCHANGED <<lk_locks, lk_held, lk_queue, lk_policy, lk_failing,
                       kvVars, wtVars, stVars, bkVars, ixVars, alVars>>

\* trigger_async_flush: try_lock, whose guard is dropped at once, then spawn
LkTrigger(t) ==
    /\ t \in LkWriters
    /\ lk_pc[t] = "trigger"
    /\ IF LkFree("flush_lock") /\ IdleFlusher
       THEN \E f \in LkFlushers :
                /\ lk_pc[f] = "idle"
                /\ lk_pc' = [lk_pc EXCEPT ![t] = "buf_locked", ![f] = "spawned"]
       ELSE lk_pc' = [lk_pc EXCEPT ![t] = "buf_locked"]
    /\ UNCHANGED <<lk_locks, lk_held, lk_queue, lk_policy, lk_failing,
                   kvVars, wtVars, stVars, bkVars, ixVars, alVars>>

NextLocks ==
    \/ \E t \in LkThreads : LkAcquireWrite(t)
    \/ \E t \in LkThreads : LkAcquireRead(t)
    \/ \E t \in LkThreads : LkUnlock(t)
    \/ \E t \in LkThreads : LkLocal(t)
    \/ \E t \in LkThreads : LkTrigger(t)

SpecLocks == InitLocks /\ [][NextLocks]_vars

----------------------------------------------------------------------------
(* Properties of the KV facade                                              *)

WrittenOnce(k) == acked[k] # NoOp /\ prev_acked[k] = NoOp

\* the last op for key k in a batch, NoOp when the batch does not name k
RECURSIVE LastOpFor(_, _)
LastOpFor(ops, k) ==
    IF ops = <<>> THEN NoOp
    ELSE IF ops[Len(ops)].key = k THEN ops[Len(ops)].op
    ELSE LastOpFor(SubSeq(ops, 1, Len(ops) - 1), k)

\* C1: read-your-writes. When put(K, V) has returned Ok, a get(K) issued
\* next, with no other write to K in between, returns Some(V).
C1_ReadYourWrites ==
    \A k \in Keys(key_size), v \in Values :
        last_call = [name |-> "put", ops |-> <<Op(k, Put(v))>>, res |-> "Ok"]
            => KVGet(k) = Some(v)

\* C2: last write wins. When put(K, V1) and then put(K, V2) have returned Ok
\* and K is not written afterwards, get(K) returns Some(V2), wherever the
\* two values currently live (active buffer, sealed buffers, index).
C2_LastWriteWins ==
    \A k \in Keys(key_size) :
        (acked[k].type = "Put" /\ prev_acked[k].type = "Put")
            => KVGet(k) = Some(acked[k].value)

\* C3: a delete hides the value. When put(K, V) and then delete(K) have
\* returned Ok and K is not written afterwards, get(K) returns None, also
\* while the Put and the Del sit in two different sealed buffers.
C3_DeleteHidesValue ==
    \A k \in Keys(key_size) :
        (acked[k].type = "Del" /\ prev_acked[k].type = "Put")
            => KVGet(k) = None

\* C4: crash safety. When put(K, V) has returned Ok, the process is killed
\* and the directory is re-opened, get(K) returns Some(V) as long as K was
\* not written again (checked on instances of the default key size).
C4_CrashSafety ==
    \A k \in Keys(key_size) :
        (key_size = DefaultKeySize /\ crashes > 0 /\ acked[k].type = "Put")
            => KVGet(k) = Some(acked[k].value)

\* C5: rotation and flushing are invisible. For a key written once by a put
\* of V and never overwritten or deleted, get(K) returns Some(V) in every
\* later state of the instance: active buffer, sealed buffer, value store and
\* index written, sealed buffer popped.
C5_FlushInvisible ==
    \A k \in Keys(key_size) :
        (WrittenOnce(k) /\ acked[k].type = "Put")
            => KVGet(k) = Some(acked[k].value)

\* a key written once whose value is served by the index alone, its sealed
\* buffer applied and popped
C5_Witness ==
    \E k \in Keys(key_size) :
        /\ WrittenOnce(k)
        /\ acked[k] = Put(<<7>>)
        /\ k \notin DOMAIN current_buffer
        /\ flushing_buffers = <<>>
        /\ current_wal_id > 0
        /\ BucketsGet(buckets, k).res = "Some"
        /\ KVGet(k) = Some(<<7>>)

\* C6: a key of the wrong length is rejected and nothing is touched. When a
\* put, delete or do_batch names a key whose length is not key_size, whether
\* first in the batch or not, the call returns InvalidKeyLength and the WAL
\* files, the WAL handle and its end offset, current_wal_id, the active
\* buffer and flushing_buffers are what they were before the call.
C6_InvalidKeyRejected ==
    [][ (/\ nops' = nops + 1
         /\ \E i \in 1..Len(last_call'.ops) : Len(last_call'.ops[i].key) # key_size)
        => (/\ last_call'.res = "InvalidKeyLength"
            /\ UNCHANGED <<wal_files, current_wal, current_wal_id,
                           current_buffer, flushing_buffers>>) ]_vars

\* a rejected batch whose invalid key is not the first one, on an instance
\* that already holds data in its WAL, active buffer and a sealed buffer
C6_Witness ==
    /\ last_call.res = "InvalidKeyLength"
    /\ Len(last_call.ops) = 2
    /\ Len(last_call.ops[1].key) = key_size
    /\ Len(last_call.ops[2].key) # key_size
    /\ current_buffer # EmptyBuffer
    /\ flushing_buffers # <<>>
    /\ wal_files[current_wal.id] # <<>>

\* C7: the key width is the key_size chosen at creation. On an instance
\* created with key_size other than 32 the flusher's index put and del never
\* fail with InvalidKeyLength.
C7_CustomKeySize ==
    key_size # DefaultKeySize => fl_err # "InvalidKeyLength"

\* C8: after do_batch(B) has returned Ok, for every key K of B, get(K)
\* reflects the last op for K in B: Some(V) for a Put of V, None for a Del.
C8_BatchLastOpWins ==
    (last_call.name = "do_batch" /\ last_call.res = "Ok")
        => \A k \in Keys(key_size) :
               LastOpFor(last_call.ops, k) # NoOp
                   => KVGet(k) = OpResult(LastOpFor(last_call.ops, k))

\* C9: a put with an empty value is a Put. After put(K, empty), K not written
\* before or afterwards, get(K) returns Some(empty) in every later state and
\* after the directory is re-opened (checked on instances of the default key
\* size).
C9_EmptyValueIsPut ==
    \A k \in Keys(key_size) :
        (key_size = DefaultKeySize /\ WrittenOnce(k) /\ acked[k] = Put(<<>>))
            => KVGet(k) = Some(<<>>)

\* C15: lookup order of get. get(K) returns the op of the active buffer if
\* K is there; otherwise the op for K of the newest flushing buffer that
\* holds K; only if no buffer holds K does it consult the index.
C15_GetLookupOrder ==
    \A k \in Keys(key_size) :
        LET hits   == { i \in 1..Len(flushing_buffers) :
                          k \in DOMAIN flushing_buffers[i].buffer }
            newest == CHOOSE i \in hits : \A j \in hits : j <= i
        IN  KVGet(k) =
                IF k \in DOMAIN current_buffer THEN OpResult(current_buffer[k])
                ELSE IF hits # {} THEN OpResult(flushing_buffers[newest].buffer[k])
                ELSE IndexGet(buckets, lp_data, k)

\* C16: batch encoding and replay decoding are inverse. For every batch
\* do_batch accepted, decoding its WAL record payload the way the replay
\* callback of load does yields the batch's sequence of (key, op), so that
\* folding the decoded record into an empty buffer gives the buffer that
\* folding the batch gives.
C16_EncodeDecodeInverse ==
    (last_call.res = "Ok" /\ last_call.ops # <<>>)
        => LET decoded == DecodePayload(BatchPayload(last_call.ops, key_size), key_size)
           IN  /\ decoded = last_call.ops
               /\ Fold(EmptyBuffer, decoded) = Fold(EmptyBuffer, last_call.ops)

C18_MetaPersistedOnRotation ==
    /\ fl_pc = "pop" => meta_file.current_wal_id > flushing_buffers[1].wal_id
    /\ current_buffer # EmptyBuffer => current_wal_id <= meta_file.current_wal_id
    /\ \A i \in 1..Len(flushing_buffers) :
           flushing_buffers[i].wal_id <= meta_file.current_wal_id

\* the ops of the batches whose records a WAL file holds, in order: the
\* entries do_batch wrote behind the total_size header of each payload
RECURSIVE PayloadsOps(_, _)
PayloadsOps(payloads, ks) ==
    IF payloads = <<>> THEN <<>>
    ELSE DecodeFrom(Head(payloads), 4, ks) \o PayloadsOps(Tail(payloads), ks)

WalOps(file, ks) == PayloadsOps(replay(file), ks)

\* a buffer as do_batch writes its ops to disk: the bytes that follow each
\* key (none for a Del and for a Put of the empty value)
OnDisk(buffer) == [k \in DOMAIN buffer |-> buffer[k].value]

\* C19: the rotation step and its consequence. do_batch rotates exactly when
\* the end offset of the WAL exceeds wal_flush_size, sealing the active
\* buffer, the ops of the triggering batch included, with the old WAL;
\* consequently in every reachable state each buffer, active or sealed,
\* equals the fold of exactly the records stored in its own WAL file.
C19_BuffersFoldOfWal ==
    /\ OnDisk(current_buffer)
           = OnDisk(Fold(EmptyBuffer, WalOps(wal_files[current_wal.id], key_size)))
    /\ \A i \in 1..Len(flushing_buffers) :
           flushing_buffers[i].wal_id \in DOMAIN wal_files
               => OnDisk(flushing_buffers[i].buffer)
                      = OnDisk(Fold(EmptyBuffer,
                                    WalOps(wal_files[flushing_buffers[i].wal_id], key_size)))

\* the op is fully applied to the index: a Put reads back through the index
\* and the value store, a Del has left no entry
AppliedToIndex(k, op) ==
    IndexGet(buckets, lp_data, k) = OpResult(op)

\* a WAL file on disk holds a record with the op
HeldByWal(k, op) ==
    \E id \in DOMAIN wal_files :
        LET ops == WalOps(wal_files[id], key_size)
        IN  \E i \in 1..Len(ops) :
                /\ ops[i].key = k
                /\ ops[i].op.value = op.value
                /\ op.value # <<>> => ops[i].op.type = op.type

\* C20: flush-then-delete ordering. The WAL file of a sealed buffer is
\* removed only after every op of the buffer has been applied to the value
\* store and the index, and the buffer leaves flushing_buffers only after
\* its WAL file has been removed; so at every instant each acknowledged op
\* is held by a WAL file on disk or is fully applied to the index.
C20_FlushThenDelete ==
    /\ \A i \in 1..Len(flushing_buffers) :
           flushing_buffers[i].wal_id \notin DOMAIN wal_files
               => /\ i = 1
                  /\ fl_pc = "pop"
                  /\ \A k \in DOMAIN flushing_buffers[1].buffer :
                         AppliedToIndex(k, flushing_buffers[1].buffer[k])
    /\ \A id \in DOMAIN wal_files :
           id # current_wal.id
               => \E i \in 1..Len(flushing_buffers) : flushing_buffers[i].wal_id = id
    /\ \A k \in Keys(key_size) :
           acked[k] # NoOp => HeldByWal(k, acked[k]) \/ AppliedToIndex(k, acked[k])

----------------------------------------------------------------------------
(* Properties of the WAL *)

RECURSIVE TotalLen(_)
TotalLen(payloads) ==
    IF payloads = <<>> THEN 0
    ELSE Len(RecordBytes(payloads[1])) + TotalLen(Tail(payloads))

\* the longest prefix of the written payloads whose records lie entirely
\* within the first n bytes of the file
ContainedPrefix(payloads, n) ==
    LET k == CHOOSE j \in 0..Len(payloads) :
                 /\ TotalLen(SubSeq(payloads, 1, j)) <= n
                 /\ \A i \in (j + 1)..Len(payloads) :
                        TotalLen(SubSeq(payloads, 1, i)) > n
    IN  SubSeq(payloads, 1, k)

\* C10: replay is prefix-closed and order-preserving under truncation. For a
\* file written by write_record calls r1..rn and cut at any byte position,
\* replay passes to its callback exactly r1..rk, in order, where k is the
\* number of records that lie entirely within the file.
C10_ReplayPrefix ==
    wt_replayed.done
        => wt_replayed.payloads = ContainedPrefix(wt_written, Len(wt_file))

\* a file of three records cut inside its second record, of which replay
\* returned the first record only
C10_Witness ==
    /\ wt_replayed.done
    /\ wt_cut
    /\ Len(wt_written) = MaxRecords
    /\ Len(wt_file) > TotalLen(SubSeq(wt_written, 1, 1)) + 4
    /\ Len(wt_file) < TotalLen(SubSeq(wt_written, 1, 2))
    /\ wt_replayed.payloads = SubSeq(wt_written, 1, 1)

----------------------------------------------------------------------------
(* Properties of the value store *)

\* C11: value-store round trip. After write(V) has returned a data_id, read
\* of that data_id returns bytes whose first |V| bytes are V, until free of
\* that data_id; other writes and frees, growth of the files and a re-open
\* of the store do not change that.
C11_ValueRoundTrip ==
    \A id \in DOMAIN st_live :
        Slice(LevelPageRead(st_levels, id), 0, Len(st_live[id])) = st_live[id]

\* a store re-opened after its smallest level has grown, a page of it
\* having been freed, in which a value written after the growth is held
C11_Witness ==
    /\ st_last.op = "reopen"
    /\ st_last.res = "Ok"
    /\ st_levels[0].data_len > InitPages * StartPageSize
    /\ Cardinality(DOMAIN st_live) > InitPages - 9
    /\ \E id \in DOMAIN st_live : st_live[id] = <<2, 2>> /\ PageOf(id) = 0
    /\ \E id \in DOMAIN st_live : st_live[id] = <<1>>

\* in every layer above layer 0 a bit is the conjunction of its children
HierarchyOk(levels) ==
    \A k \in 1..(Len(levels) - 1) :
        /\ Len(levels[k + 1]) = (Len(levels[k]) + 7) \div 8
        /\ \A i \in 1..Len(levels[k + 1]) :
               levels[k + 1][i] =
                   AllOnes(levels[k], (i - 1) * 8, Min({i * 8, Len(levels[k])}))

\* C13: the hierarchical bitmap. At the end of every allocate_page and
\* free_page, in every layer above layer 0 a bit is 1 exactly when all of
\* its children are 1; the layer-0 bit of a page is 1 after the
\* allocate_page that returned it and 0 after its free_page.
C13_BitmapHierarchy ==
    ~Panicked(st_levels) =>
        /\ \A l \in DOMAIN st_levels : HierarchyOk(st_levels[l].levels)
        /\ (st_last.op = "write" /\ st_last.res = "Ok")
               => st_levels[LevelOf(st_last.data_id)].levels[1][PageOf(st_last.data_id) + 1]
        /\ st_last.op = "free"
               => ~st_levels[LevelOf(st_last.data_id)].levels[1][PageOf(st_last.data_id) + 1]

\* page 0 of a full group has just been freed: its parent is 0 again while
\* the parent of the next group is still 1
C13_Witness ==
    /\ st_last.op = "free"
    /\ st_last.data_id = EncodeDataId(0, 0)
    /\ ~st_levels[0].levels[2][1]
    /\ st_levels[0].levels[2][2]

\* C14: allocator files stay consistent. After creation and after every
\* allocate_page, growth included, the data file is as long as the index
\* file in bytes times 8 times page_size, so that recover_from_file never
\* rejects files the allocator wrote.
C14_FilesConsistent ==
    /\ \A l \in DOMAIN st_levels : FilesConsistent(st_levels[l])
    /\ st_last.op = "reopen" => st_last.res = "Ok"

\* a write has grown the files of the smallest level a second time
C14_Witness ==
    /\ st_last.op = "write"
    /\ st_last.res = "Ok"
    /\ Len(st_levels[0].index_file) = 2 * InitPages + 8
    /\ st_levels[0].data_len = (2 * InitPages + 8) * StartPageSize

----------------------------------------------------------------------------
(* Properties of the hash bucket *)

\* C12: expand preserves the contents of a bucket. For every key, a get
\* after Bucket::expand returns what a get returned just before it, keys
\* whose probe window wraps around the end of the slot array included.
C12_ExpandPreservesGet ==
    bk_last = "expand"
        => \A k \in BkKeys : BucketGet(bk, k) = BucketGet(bk_before, k)

----------------------------------------------------------------------------
(* Properties of the flusher *)

\* a step that touches the queue, the index or the sealed WAL files does it
\* oldest-first: the queue grows at its tail and shrinks at its head, the
\* index takes ops of the head buffer only, and the only WAL file removed
\* is the head's
OldestFirstStep ==
    /\ flushing_buffers' # flushing_buffers
           => \/ /\ Len(flushing_buffers') = Len(flushing_buffers) + 1
                 /\ SubSeq(flushing_buffers', 1, Len(flushing_buffers)) = flushing_buffers
              \/ /\ flushing_buffers # <<>>
                 /\ flushing_buffers' = Tail(flushing_buffers)
                 /\ \A k \in DOMAIN flushing_buffers[1].buffer :
                        AppliedToIndex(k, flushing_buffers[1].buffer[k])
    /\ buckets' # buckets
           => /\ flushing_buffers # <<>>
              /\ fl_key' \in DOMAIN flushing_buffers[1].buffer
              /\ \A k \in Keys(key_size) \ {fl_key'} :
                     BucketsGet(buckets', k) = BucketsGet(buckets, k)
    /\ \A id \in DOMAIN wal_files \ DOMAIN wal_files' :
           flushing_buffers # <<>> /\ id = flushing_buffers[1].wal_id

\* once no buffer holds a key, the index holds the newest acknowledged op of it
IndexHoldsNewest ==
    \A k \in Keys(key_size) :
        (/\ flushing_buffers = <<>>
         /\ k \notin DOMAIN current_buffer
         /\ acked[k] # NoOp)
            => AppliedToIndex(k, acked[k])

FlusherMutexStep ==
    /\ (fl_pc' = "none") = (flush_lock' = "free")
    /\ fl_spawned' < fl_spawned => (fl_pc = "none" /\ flush_lock = "free")
    /\ (flush_lock = "held" /\ Len(flushing_buffers') > Len(flushing_buffers))
           => fl_spawned' = fl_spawned

\* C22: flusher mutual exclusion. Under any interleaving of triggers at most
\* one thread at a time is inside the flush loop, and a trigger issued while
\* a flusher holds flush_lock starts no second flusher.
C22_FlusherMutex == [][FlusherMutexStep]_vars

\* a second buffer was sealed while the only flusher spawned so far was
\* inside the loop, and no other thread was spawned
C22_Witness ==
    /\ flush_lock = "held"
    /\ fl_pc = "head"
    /\ fl_spawned = 0
    /\ current_wal_id = 2
    /\ Len(flushing_buffers) = 2

\* C23: flush liveness. After writes that sealed buffers, with no further
\* write, fair scheduling and no I/O error, flushing_buffers becomes empty
\* and only the active WAL file is left, for every interleaving of a
\* seal-and-trigger with a flusher that is about to exit: so a state where
\* no flusher thread runs or waits to run has nothing left to flush.
C23_FlushLiveness ==
    (fl_pc = "none" /\ fl_spawned = 0)
        => /\ flushing_buffers = <<>>
           /\ DOMAIN wal_files = {current_wal.id}

----------------------------------------------------------------------------
(* Properties of the locks *)

\* a set of threads each of which waits for a thread of the set
WaitCycle ==
    \E g \in {WaitGraph} :
        \E C \in (SUBSET LkThreads) \ {{}} :
            \A t \in C : \E u \in C : <<t, u>> \in g

\* every thread holds its locks in the documented order
HierarchyOrder ==
    \A t \in LkThreads :
        \A i, j \in 1..Len(lk_held[t]) :
            i < j => LkRank(lk_held[t][i]) < LkRank(lk_held[t][j])

\* C24: with writers, a reader and flusher threads running concurrently, no
\* state is reachable in which a set of threads wait for each other in a
\* cycle, and every thread takes current_wal, current_buffer,
\* flushing_buffers, the shard lock, the bucket file lock and the allocator
\* locks only in that order.
C24_DeadlockFree == ~WaitCycle /\ HierarchyOrder

\* a writer holding current_wal and current_buffer waits for the queue, which
\* a flusher holds while it is inside the index, and the reader waits behind
\* the writer
C24_Witness ==
    \E w \in LkWriters, f \in LkFlushers, g \in LkReaders :
        /\ lk_held[w] = <<"current_wal", "current_buffer">>
        /\ WaitsFor(w, f)
        /\ lk_held[f] = <<"flush_lock", "flushing_buffers", "shard", "inner_data">>
        /\ WaitsFor(g, w)

\* flusher f is inside the retry loop of buckets_index.put, whose call keeps
\* failing; it holds its read lock on the queue through every iteration
Retrying(f) ==
    /\ lk_failing
    /\ lk_pc[f] \in {"index_put", "shard_locked", "put_failed"}
    /\ Holds(f, "flushing_buffers")

\* t is inside write() or read() on the queue and cannot get it before f
\* gives up its read lock
BehindFlusher(t, f) ==
    \E s \in LkNextSteps(t) :
        /\ s.lock = "flushing_buffers"
        /\ Holds(f, "flushing_buffers")
        /\ \/ s.act = "write"
           \/ s.act = "read" /\ ~CanRead("flushing_buffers")

\* C25: a put, delete or get in progress never waits for a flusher whose
\* retry loop keeps failing, so that every call returns.
C25_ForegroundProgress ==
    \A t \in LkForeground : \A f \in LkFlushers :
        Retrying(f) => ~BehindFlusher(t, f)

----------------------------------------------------------------------------
(* Properties of do_batch under I/O errors *)

\* a do_batch that returns Ok has appended its record to the WAL and folded
\* its ops into the buffer (sealed or not); one that returns an error has
\* changed neither the WAL files nor the buffers
AllOrNothingStep ==
    nops' = nops + 1 =>
        IF last_call'.res = "Ok"
        THEN LET rec    == RecordBytes(BatchPayload(last_call'.ops, key_size))
                 folded == Fold(current_buffer, last_call'.ops)
             IN  /\ wal_files'[current_wal.id] = wal_files[current_wal.id] \o rec
                 /\ \/ current_buffer' = folded
                    \/ /\ Len(flushing_buffers') = Len(flushing_buffers) + 1
                       /\ flushing_buffers'[Len(flushing_buffers')].buffer = folded
        ELSE /\ wal_files' = wal_files
             /\ current_buffer' = current_buffer
             /\ flushing_buffers' = flushing_buffers

\* C26: do_batch is all-or-nothing with the WAL append as commit point: on an
\* error the record is in no WAL file and no op is in the buffers, on Ok the
\* record is in the WAL and the ops are in the buffer; no path, a failure to
\* open the next WAL file during rotation included, leaves the WAL holding a
\* batch the buffers do not hold.
C26_AllOrNothing == [][AllOrNothingStep]_vars

----------------------------------------------------------------------------
(* Properties of delete in the hash bucket *)

\* C27: after del(k) has returned, get(k) returns None until the next
\* put(k, _), and del(k) returns the value get(k) would have returned just
\* before it, also when keys sharing k's probe window were deleted and k was
\* put again in between.
C27_DeleteRemoves ==
    bk_last = "del" =>
        \A k \in BkKeys :
            LET d == BucketDel(bk_before, k)
            IN  d.bucket = bk =>
                    /\ BucketGet(bk, k).res = "None"
                    /\ d.res = BucketGet(bk_before, k).res
                    /\ d.value = BucketGet(bk_before, k).value

----------------------------------------------------------------------------
(* Properties of the sharded index *)

----------------------------------------------------------------------------
(* Properties of allocation in the value store *)

\* the layer-0 bits that are 0 in bitmap pb
FreeBits(pb) == { i \in 0..(Len(pb.levels[1]) - 1) : ~pb.levels[1][i + 1] }

\* a write that returns Ok has taken the smallest page whose layer-0 bit was
\* 0 once the bitmap had grown as allocate_page grows it
FirstFitStep ==
    (st_ops' = st_ops + 1 /\ st_last'.op = "write" /\ st_last'.res = "Ok") =>
        \E grown \in {expand_if_need(st_levels[LevelOf(st_last'.data_id)])} :
            /\ FreeBits(grown) # {}
            /\ PageOf(st_last'.data_id) = Min(FreeBits(grown))

\* C29: first-fit allocation with reuse: after any sequence of allocations,
\* frees and growth, allocate_page returns the smallest page index whose
\* layer-0 bit is 0 at that moment; a freed page smaller than every other
\* free index is the next one returned.
C29_FirstFit == [][FirstFitStep]_vars

\* a write has just returned a page that had been freed, below pages that
\* are still allocated
C29_Witness ==
    /\ st_last.op = "write"
    /\ st_last.res = "Ok"
    /\ PageOf(st_last.data_id) \in FreePages
    /\ \E d \in DOMAIN st_live :
           /\ LevelOf(d) = LevelOf(st_last.data_id)
           /\ PageOf(d) > PageOf(st_last.data_id)
    /\ st_ops >= 2

\* C30: layer 0 mirrors the index file: in every state reached by
\* allocations, frees and growth, the in-memory layer 0 and the index file
\* have the same length in bits and equal bits at every position, and the
\* data file holds as many pages: a growth extends the three by the same
\* number of pages.
C30_LayerZeroMirrorsFile ==
    \A l \in DOMAIN st_levels :
        \E pb \in {st_levels[l]} :
            ~pb.panicked =>
                /\ Len(pb.levels[1]) = Len(pb.index_file)
                /\ \A i \in 1..Len(pb.levels[1]) : pb.levels[1][i] = pb.index_file[i]
                /\ pb.data_len = Len(pb.levels[1]) * pb.page_size

----------------------------------------------------------------------------
(* Properties of level routing *)

\* C31: level routing and data-id encoding. write(V) stores V in the level
\* with the smallest page size >= |V| (a value of exactly page_size bytes
\* goes to that level, the empty value to level 0) and returns
\* data_id = (level << shift) | page_idx; read and free decode the same pair
\* and act on that level's page.
C31_LevelRouting ==
    /\ (st_last.op = "write" /\ st_last.res = "Ok") =>
           \E v \in {st_live[st_last.data_id]} :
               \E l \in {LevelOf(st_last.data_id)}, p \in {PageOf(st_last.data_id)} :
                   /\ st_last.data_id = EncodeDataId(l, p)
                   /\ PageSize(l) >= Len(v)
                   /\ \A j \in 0..(l - 1) : PageSize(j) < Len(v)
                   /\ st_levels[l].levels[1][p + 1]
                   /\ Slice(read_page(st_levels[l], p), 0, Len(v)) = v
                   /\ LevelPageRead(st_levels, st_last.data_id) = read_page(st_levels[l], p)
    /\ (st_last.op = "free" /\ st_last.res = "Ok") =>
           ~st_levels[LevelOf(st_last.data_id)].levels[1][PageOf(st_last.data_id) + 1]

\* a value of exactly the smallest page size has just been written into
\* level 0, while the store holds the empty value in level 0 and a value one
\* byte longer in level 1
C31_Witness ==
    /\ st_last.op = "write"
    /\ st_last.res = "Ok"
    /\ LevelOf(st_last.data_id) = 0
    /\ Len(st_live[st_last.data_id]) = StartPageSize
    /\ \E id \in DOMAIN st_live : st_live[id] = <<>> /\ LevelOf(id) = 0
    /\ \E id \in DOMAIN st_live : Len(st_live[id]) = StartPageSize + 1 /\ LevelOf(id) = 1

----------------------------------------------------------------------------
(* One PageBitmap called by concurrent threads: allocate_page and          *)
(* free_page step by step, with meta_lock and the levels lock              *)

AlThreads == {"a1", "a2"}

MaxAllocOps == 3

\* numbers of pages allocated before the threads start: none, two, and all
\* but the last group of 8 (the next allocation grows the bitmap)
AlPrefillCounts == {0, 2, InitPages - 8}

AlThread(pc, page, buf) == [pc |-> pc, page |-> page, buf |-> buf]

\* read_at of one byte of the index file: the 8 bits of the byte of page_idx
IndexByte(bits, page_idx) ==
    [b \in 1..8 |-> bits[(page_idx \div 8) * 8 + b]]

\* buf[0] |= 1 << bit_index, buf[0] &= !(1 << bit_index)
ByteWithBit(buf, page_idx, value) == [buf EXCEPT ![(page_idx % 8) + 1] = value]

\* write_at of one byte of the index file
WriteIndexByte(bits, page_idx, buf) ==
    [i \in 1..Len(bits) |->
        IF (i - 1) \div 8 = page_idx \div 8 THEN buf[((i - 1) % 8) + 1] ELSE bits[i]]

\* the first pages belong to a1 and a2, the rest to the thread that opened
\* the bitmap, which makes no call
InitAlloc ==
    /\ KVInit
    /\ WtIdle
    /\ StIdle
    /\ BkIdle
    /\ LkIdle
    /\ IxIdle
    /\ \E n \in AlPrefillCounts :
         /\ al_pb = Prefilled(n)[0]
         /\ al_held = [t \in AlThreads \cup {"main"} |->
                          IF n = 0 THEN {}
                          ELSE IF t = "a1" THEN {0}
                          ELSE IF t = "a2" THEN {1}
                          ELSE 2..(n - 1)]
    /\ al_th = [t \in AlThreads |-> AlThread("idle", -1, <<>>)]
    /\ al_locks = [meta_lock |-> "none", levels |-> "none"]
    /\ al_dup = FALSE
    /\ al_ops = 0

AlRest == <<kvVars, wtVars, stVars, bkVars, lkVars, ixVars>>

\* a thread calls allocate_page
AlCallAllocate(t) ==
    /\ al_th[t].pc = "idle"
    /\ al_ops < MaxAllocOps
    /\ ~al_pb.panicked
    /\ al_th' = [al_th EXCEPT ![t] = AlThread("meta_lock", -1, <<>>)]
    /\ al_ops' = al_ops + 1
    /\ UNCHANGED <<al_pb, al_locks, al_held, al_dup, AlRest>>

\* allocate_page: self.meta_lock.lock()
AlLockMeta(t) ==
    /\ al_th[t].pc = "meta_lock"
    /\ al_locks.meta_lock = "none"
    /\ al_locks' = [al_locks EXCEPT !.meta_lock = t]
    /\ al_th' = [al_th EXCEPT ![t].pc = "expand_if_need"]
    /\ UNCHANGED <<al_pb, al_held, al_dup, al_ops, AlRest>>

\* allocate_page: self.expand_if_need(), which takes levels.write() and
\* releases it on return
AlExpand(t) ==
    /\ al_th[t].pc = "expand_if_need"
    /\ al_locks.levels = "none"
    /\ al_pb' = expand_if_need(al_pb)
    /\ al_th' = [al_th EXCEPT ![t].pc = "levels_write"]
    /\ UNCHANGED <<al_locks, al_held, al_dup, al_ops, AlRest>>

\* allocate_page: levels.write(), drop(_guard), find_and_set
AlFindAndSet(t) ==
    /\ al_th[t].pc = "levels_write"
    /\ al_locks.levels = "none"
    /\ \E allocated \in {find_and_set(al_pb.levels, Len(al_pb.levels) - 1, 0)} :
         IF allocated = -1
         THEN /\ al_pb' = [al_pb EXCEPT !.panicked = TRUE]
              /\ al_locks' = [meta_lock |-> "none", levels |-> "none"]
              /\ al_th' = [al_th EXCEPT ![t] = AlThread("idle", -1, <<>>)]
         ELSE /\ al_pb' = [al_pb EXCEPT !.levels[1][allocated + 1] = TRUE]
              /\ al_locks' = [meta_lock |-> "none", levels |-> t]
              /\ al_th' = [al_th EXCEPT ![t] = AlThread("alloc_read_at", allocated, <<>>)]
    /\ UNCHANGED <<al_held, al_dup, al_ops, AlRest>>

\* allocate_page: self.index_file.read_at(&mut buf, byte_index)
AlAllocRead(t) ==
    /\ al_th[t].pc = "alloc_read_at"
    /\ al_th' = [al_th EXCEPT ![t].pc = "alloc_write_at",
                              ![t].buf = IndexByte(al_pb.index_file, al_th[t].page)]
    /\ UNCHANGED <<al_pb, al_locks, al_held, al_dup, al_ops, AlRest>>

\* allocate_page: buf[0] |= 1 << bit_index, write_at, the parent layers,
\* Ok(allocated); the levels guard is dropped on return
AlAllocWrite(t) ==
    /\ al_th[t].pc = "alloc_write_at"
    /\ \E page \in {al_th[t].page} :
       \E up \in {MarkParents(al_pb.levels, 0, page)} :
         /\ al_pb' = [al_pb EXCEPT
                        !.index_file = WriteIndexByte(@, page,
                                           ByteWithBit(al_th[t].buf, page, TRUE)),
                        !.levels = up.levels,
                        !.panicked = ~up.ok]
         /\ al_dup' = (al_dup \/ \E u \in DOMAIN al_held : page \in al_held[u])
         /\ al_held' = [al_held EXCEPT ![t] = @ \cup {page}]
    /\ al_locks' = [al_locks EXCEPT !.levels = "none"]
    /\ al_th' = [al_th EXCEPT ![t] = AlThread("idle", -1, <<>>)]
    /\ UNCHANGED <<al_ops, AlRest>>

\* a thread calls free_page on a page it was returned
AlCallFree(t) ==
    /\ al_th[t].pc = "idle"
    /\ al_ops < MaxAllocOps
    /\ ~al_pb.panicked
    /\ \E page \in al_held[t] :
         /\ al_th' = [al_th EXCEPT ![t] = AlThread("free_read_at", page, <<>>)]
         /\ al_held' = [al_held EXCEPT ![t] = @ \ {page}]
    /\ al_ops' = al_ops + 1
    /\ UNCHANGED <<al_pb, al_locks, al_dup, AlRest>>

\* free_page: set_file_bit, read_at; no lock is held
AlFreeRead(t) ==
    /\ al_th[t].pc = "free_read_at"
    /\ al_th' = [al_th EXCEPT ![t].pc = "free_write_at",
                              ![t].buf = IndexByte(al_pb.index_file, al_th[t].page)]
    /\ UNCHANGED <<al_pb, al_locks, al_held, al_dup, al_ops, AlRest>>

\* free_page: set_file_bit, buf[0] &= !(1 << bit_index), write_at
AlFreeWrite(t) ==
    /\ al_th[t].pc = "free_write_at"
    /\ al_pb' = [al_pb EXCEPT
                   !.index_file = WriteIndexByte(@, al_th[t].page,
                                      ByteWithBit(al_th[t].buf, al_th[t].page, FALSE))]
    /\ al_th' = [al_th EXCEPT ![t].pc = "free_levels_write"]
    /\ UNCHANGED <<al_locks, al_held, al_dup, al_ops, AlRest>>

\* free_page: levels.write(), levels[0].set(idx, false), the parent levels;
\* the guard is dropped on return
AlFreeLevels(t) ==
    /\ al_th[t].pc = "free_levels_write"
    /\ al_locks.levels = "none"
    /\ \E up \in { UpdateParents(cleared, 0, al_th[t].page) :
                   cleared \in {[al_pb.levels EXCEPT ![1][al_th[t].page + 1] = FALSE]} } :
         al_pb' = [al_pb EXCEPT !.levels = up.levels, !.panicked = ~up.ok]
    /\ al_th' = [al_th EXCEPT ![t] = AlThread("idle", -1, <<>>)]
    /\ UNCHANGED <<al_locks, al_held, al_dup, al_ops, AlRest>>

NextAlloc ==
    \E t \in AlThreads :
        \/ AlCallAllocate(t)
        \/ AlLockMeta(t)
        \/ AlExpand(t)
        \/ AlFindAndSet(t)
        \/ AlAllocRead(t)
        \/ AlAllocWrite(t)
        \/ AlCallFree(t)
        \/ AlFreeRead(t)
        \/ AlFreeWrite(t)
        \/ AlFreeLevels(t)

SpecAlloc == InitAlloc /\ [][NextAlloc]_vars

\* every call has returned
AlQuiescent == \A t \in AlThreads : al_th[t].pc = "idle"

\* no allocation has returned a page that a caller still held
AlNoDuplicate == ~al_dup

\* C32: allocator mutations are serialized. For any interleaving of
\* concurrent allocate_page and free_page calls on one PageBitmap, two
\* allocations never return the same page, and once all calls have returned
\* the index file bits equal the layer-0 bits (no update of an index byte is
\* lost).
C32_Serialized ==
    /\ ~al_dup
    /\ (AlQuiescent /\ ~al_pb.panicked) =>
           \A i \in 1..Len(al_pb.levels[1]) :
               al_pb.index_file[i] = al_pb.levels[1][i]

----------------------------------------------------------------------------
(* Properties of the slots of the hash bucket *)

\* the indices of the occupied slots that hold key
OccupiedSlots(bucket, key) ==
    { i \in DOMAIN bucket.slots :
        bucket.slots[i].meta = "Occupied" /\ bucket.slots[i].key = key }

\* C33: unique index slot per key. At most one Occupied slot of a bucket
\* holds any given key, whatever sequence of put, del and expand preceded,
\* a put of a key that already sits later in its probe window than a freed
\* slot included.
C33_UniqueSlot ==
    \A k \in BkKeys : Cardinality(OccupiedSlots(bk, k)) <= 1

----------------------------------------------------------------------------
(* Properties of the pages of the value store *)

\* the data ids whose page is allocated in the value store
AllocatedIds == UNION { { EncodeDataId(l, p) : p \in lp_bits[l] } : l \in DOMAIN lp_bits }

\* the data ids of the Occupied entries of the index
ReferencedIds ==
    UNION { { buckets[s].slots[i].value.data_id :
                i \in { j \in DOMAIN buckets[s].slots :
                          buckets[s].slots[j].meta = "Occupied" } } :
            s \in DOMAIN buckets }

\* C34: no page leak. When the flusher is quiescent (flushing_buffers is
\* empty) the set of allocated pages of the value store equals the set of
\* pages referenced by the Occupied entries of the index; overwriting a key
\* and deleting a key both release the page that held the replaced value.
C34_NoPageLeak ==
    flushing_buffers = <<>> => AllocatedIds = ReferencedIds

\* the Occupied entries of the index, as <<shard, slot>>
OccupiedEntries ==
    UNION { { <<s, i>> : i \in { j \in DOMAIN buckets[s].slots :
                                   buckets[s].slots[j].meta = "Occupied" } } :
            s \in DOMAIN buckets }

EntryDataId(e) == buckets[e[1]].slots[e[2]].value.data_id

\* C35: the index and the value store agree. Every Occupied entry's data_id
\* names a page whose layer-0 bit is 1 and that was written, and no two
\* Occupied entries reference the same data_id, so that a get answered from
\* the index reads the page of its own key's entry and never a page that
\* was freed or handed to another key.
C35_IndexNamesLivePages ==
    /\ \A e \in OccupiedEntries :
           /\ EntryDataId(e) \in AllocatedIds
           /\ EntryDataId(e) \in DOMAIN lp_data
    /\ \A e1, e2 \in OccupiedEntries : EntryDataId(e1) = EntryDataId(e2) => e1 = e2

\* two keys are in the index, each with its own page, after one of them was
\* deleted and put again: its first page was freed and allocated again
C35_Witness ==
    /\ flushing_buffers = <<>>
    /\ \E e1, e2 \in OccupiedEntries :
           buckets[e1[1]].slots[e1[2]].key # buckets[e2[1]].slots[e2[2]].key
    /\ \E k \in Keys(key_size) :
           /\ acked[k].type = "Put"
           /\ prev_acked[k].type = "Del"
           /\ BucketsGet(buckets, k).res = "Some"

----------------------------------------------------------------------------
(* Properties of write_page *)

\* a write_page that returned an error has left the bitmap, the index file
\* and the data file as they were
OversizeStep ==
    (st_ops' = st_ops + 1 /\ st_last'.op = "write_page") =>
        /\ st_last'.res = "Err" => st_levels' = st_levels
        /\ st_last'.res = "Ok" =>
               Len(st_live'[st_last'.data_id]) <= st_levels[0].page_size

\* C36: write_page with data longer than page_size returns an error and
\* consumes nothing: no page is allocated, the layer-0 bits and the index
\* file are unchanged, and a later write_page returns the page it would have
\* returned without the failed call.
C36_OversizeConsumesNothing == [][OversizeStep]_vars

----------------------------------------------------------------------------
(* Properties of the allocator's internal checks *)

----------------------------------------------------------------------------
(* Properties of the re-opened allocator *)

\* the pages whose layer-0 bit is 1
AllocatedPages(pb) == { i \in 0..(Len(pb.levels[1]) - 1) : pb.levels[1][i + 1] }

\* a re-open succeeds, keeps the set of allocated pages of every level and
\* the content of every page, and builds layers in which a bit is the
\* conjunction of its children
ReopenStep ==
    st_reopens' = st_reopens + 1 =>
        /\ st_last'.res = "Ok"
        /\ \A l \in DOMAIN st_levels :
               /\ AllocatedPages(st_levels'[l]) = AllocatedPages(st_levels[l])
               /\ HierarchyOk(st_levels'[l].levels)
               /\ st_levels'[l].data = st_levels[l].data
               /\ ~st_levels'[l].panicked

\* a write into a re-opened store returns a page that was not allocated
WriteAfterReopenStep ==
    (st_reopens = 1 /\ st_ops' = st_ops + 1
        /\ st_last'.op \in {"write", "write_page"} /\ st_last'.res = "Ok") =>
            PageOf(st_last'.data_id)
                \notin AllocatedPages(st_levels[LevelOf(st_last'.data_id)])

\* C37: allocator re-open equivalence. Re-opening a PageBitmap from its
\* index and data files, after any allocations, frees and growths, yields
\* the same set of allocated pages and a hierarchy with parent =
\* AND(children); the re-opened allocator never hands out a page that was
\* allocated and not freed, and the pages written before read the same.
C37_ReopenEquivalence == [][ReopenStep /\ WriteAfterReopenStep]_vars

\* a store that had grown (its index file has twice the initial bits) and
\* had page 0 freed was re-opened, and a write has returned page 0 again
\* while the other pages are still held
C37_Witness ==
    /\ st_reopens = 1
    /\ st_last.op = "write"
    /\ st_last.res = "Ok"
    /\ st_last.data_id = EncodeDataId(0, 0)
    /\ Len(st_levels[0].levels[1]) = 2 * InitPages
    /\ Cardinality(DOMAIN st_live) >= InitPages - 2

----------------------------------------------------------------------------
(* Properties of applying a sealed buffer *)

\* the flusher's body for one (key, op) on the index bs and the value store
\* (bits, data): a Put writes the value and puts its DataInfo, a Del removes
\* the key and frees the page of the entry it removed
ApplyOp(s, key, op) ==
    IF op.type = "Put"
    THEN LET w == LevelWrite(s.bits, s.data, op.value)
             r == BucketsPut(s.buckets, key, DataInfo(w.data_id, DataLen(op.value)))
         IN  [buckets |-> IF r.res = "Ok" THEN r.buckets ELSE s.buckets,
              bits |-> w.bits, data |-> w.data]
    ELSE LET r == BucketsDel(s.buckets, key)
         IN  IF r.res = "Some"
             THEN [s EXCEPT !.buckets = r.buckets,
                            !.bits = LevelFree(s.bits, r.value.data_id)]
             ELSE s

\* the flusher's for loop over a buffer whose keys are visited in order
RECURSIVE ApplyBuffer(_, _, _)
ApplyBuffer(s, buffer, order) ==
    IF order = <<>> THEN s
    ELSE ApplyBuffer(ApplyOp(s, Head(order), buffer[Head(order)]), buffer, Tail(order))

\* the orders in which a HashMap of these keys may be iterated
KeyOrders(keys) ==
    { o \in UNION { [1..n -> keys] : n \in {Cardinality(keys)} } :
        \A i, j \in 1..Len(o) : i # j => o[i] # o[j] }

\* the buffers a writer may seal: one op per key, on one key or on both
SealedBuffers ==
    UNION { [ks -> {Put(<<7>>), Put(<<>>), Del}] :
            ks \in (SUBSET Keys(key_size)) \ {{}} }

\* the key -> value mapping served by the index of s
Served(s) == [k \in Keys(key_size) |-> IndexGet(s.buckets, s.data, k)]

\* C38: flush idempotence. Applying the ops of a sealed buffer to the index
\* and the value store a second time (the process stopped after applying
\* them and before the WAL file was deleted, the WAL was replayed and
\* flushed again) leaves the key -> value mapping served by the index as it
\* was after applying the buffer once.
C38_FlushIdempotent ==
    (flushing_buffers = <<>> /\ fl_pc = "none") =>
        \A buffer \in SealedBuffers :
            \A o1, o2 \in KeyOrders(DOMAIN buffer) :
                \E once \in {ApplyBuffer([buckets |-> buckets, bits |-> lp_bits,
                                          data |-> lp_data], buffer, o1)} :
                    Served(ApplyBuffer(once, buffer, o2)) = Served(once)

----------------------------------------------------------------------------
(* Properties of a failed rehash *)

\* a do_expand that returned an error has left the bucket as it was
FailedRehashStep ==
    (bk_ops' = bk_ops + 1 /\ bk_last' = "do_expand_err") =>
        /\ bk' = bk
        /\ \A k \in BkKeys : BucketGet(bk', k) = BucketGet(bk, k)

\* a do_expand that succeeds after a failed one has migrated the entries of
\* the bucket into an empty file of new_entry_num slots
RetryRehashStep ==
    (bk_ops' = bk_ops + 1 /\ bk_last' = "do_expand_retry") =>
        /\ bk' = Migrate(bk, NewBucket(bk'.entry_num), 0).bucket
        /\ bk_tmp' = <<>>

\* C40: a failed rehash attempt changes nothing visible. When do_expand
\* returns MaxSearchReached or an I/O error before the rename, the bucket's
\* canonical file, its handle and entry_num are unchanged, get, put and del
\* behave as before the attempt, and a later attempt starts from a fresh
\* temporary file.
C40_FailedRehashInvisible == [][FailedRehashStep /\ RetryRehashStep]_vars

\* a do_expand has succeeded on a bucket of three entries after an attempt
\* that stopped with MaxSearchReached and left a temporary file of 2 full
\* slots
C40_Witness ==
    /\ bk_last = "do_expand_retry"
    /\ bk_tmp = <<>>
    /\ bk.entry_num = 2 * BkInitEntryNum
    /\ \A k \in BkKeys : BucketGet(bk, k).res = "Some"

====
